---- MODULE Spec2Model ----
(***************************************************************************)
(* Credit-gated analysis pipeline and payment webhook of the resume        *)
(* optimisation backend (routes/resumes.js, routes/payments.js).           *)
(*                                                                         *)
(* The storage layer (Prisma over MySQL) is the shared state.  Every       *)
(* request handler is an async function: each awaited storage operation   *)
(* or external call is one atomic step, and the synchronous code that      *)
(* follows it up to the next await is part of the same step.               *)
(***************************************************************************)
EXTENDS Integers, Sequences, FiniteSets, TLC

(***************************************************************************)
(* Bounds of the model.                                                    *)
(***************************************************************************)
MaxRequests == 2      \* analysis requests started in one behaviour
MaxDeliveries == 2    \* webhook deliveries received in one behaviour
MaxCalls == 7         \* analyze-changes calls made one after the other

(***************************************************************************)
(* Program constants.                                                      *)
(***************************************************************************)
PPU_CLICK_LIMIT == 5

(***************************************************************************)
(* Nullable columns: a nullable value is a sequence of length <= 1.        *)
(***************************************************************************)
Null == << >>
Some(v) == << v >>
IsNull(x) == x = << >>
Val(x) == x[1]

Procs == {1, 2}          \* concurrently served analysis requests
Users == {1}             \* ids of the registered users
Resumes == {1, 2}        \* ids of the stored resumes
NoResume == 9            \* a resume id with no row
NoUser == 0              \* userId of a resume without an owner (null)

\* << req.user.id, req.params.resumeId >> of the analysis requests: the user
\* on the own resume, on an anonymous resume and on a missing one.
Requests == { <<1, 1>>, <<1, 2>>, <<1, NoResume>> }

VARIABLES
  users,          \* table User: id -> row
  resumes,        \* table Resume: id -> row
  reviewOrders,   \* table ReviewOrder: sequence of rows, index = id
  pc,             \* per request slot: position in the handler
  req,            \* per request slot: the request being served
  user,           \* per request slot: local `user` (row read at entry)
  resume,         \* per request slot: local `resume` (row read at entry,
                  \* the columns the handlers read)
  usedPpuCredit,  \* per request slot: local flag `usedPpuCredit`
  analysisResult, \* per request slot: local `analysisResult`
  resp,           \* per request slot: the response sent, Null until sent
  rollback,       \* per request slot: outcome of the rollback write
  credBefore,     \* per request slot: the user's counters when it arrived
  alone,          \* per request slot: no other request changed the counters
  nReq,           \* number of analysis requests started
  quota,          \* number of analysis requests the behaviour may start
  ledger,         \* per user: the counters at the start, the credits used
                  \* by requests that succeeded, the credits whose
                  \* rollback write failed
  wh,             \* webhook handler: delivery in flight or last handled
  whResp,         \* webhook handler: status code of the last response
  nDeliv,         \* number of webhook deliveries received
  deleting,       \* webhook handler: user found by a subscription-deleted
                  \* event whose update is still to be written
  granted         \* per event: number of credit increments it caused

dbVars == << users, resumes, reviewOrders >>
procVars == << pc, req, user, resume, usedPpuCredit, analysisResult, resp,
               rollback, credBefore, alone, nReq, quota, ledger >>
whVars == << wh, whResp, nDeliv, deleting, granted >>
vars == << users, resumes, reviewOrders, pc, req, user, resume,
           usedPpuCredit, analysisResult, resp, rollback, credBefore, alone,
           nReq, quota, ledger, wh, whResp, nDeliv, deleting, granted >>

(***************************************************************************)
(* Rows.                                                                   *)
(***************************************************************************)
NewUser ==
  [ subscriptionStatus |-> "free", stripeSubscriptionId |-> Null,
    ppuAtsCredits |-> 0, ppuOptimizationCredits |-> 0 ]

\* A resume as the upload handler leaves it after a successful basic check:
\* atsScore, feedback and status are written, completedAt is not.
UploadedResume(owner, fileUrl, jobDescription) ==
  [ userId |-> owner, fileUrl |-> fileUrl, jobDescription |-> jobDescription,
    status |-> "basic_ats_complete", atsScore |-> Some(70),
    optimizationScore |-> Null, keywordAnalysis |-> Null,
    feedback |-> Some("basic_feedback"), completedAt |-> Null,
    ppuOptimizationClicksRemaining |-> Null, paymentStatus |-> Null ]

\* A resume as the upload handler leaves it when the basic check failed.
FailedUpload(owner, fileUrl, jobDescription) ==
  [ UploadedResume(owner, fileUrl, jobDescription) EXCEPT
      !.status = "basic_ats_failed", !.atsScore = Null, !.feedback = Null ]

NoRequest == [ kind |-> "none", userId |-> 0, resumeId |-> 0 ]

\* The columns of a resume row that the analysis handlers read from their
\* local copy.
Columns(r) ==
  [ userId |-> r.userId, fileUrl |-> r.fileUrl,
    jobDescription |-> r.jobDescription,
    ppuOptimizationClicksRemaining |-> r.ppuOptimizationClicksRemaining ]


Response(code, tag) == Some([ code |-> code, error |-> tag ])

(***************************************************************************)
(* Storage operations (Prisma).                                            *)
(***************************************************************************)
\* prisma.user.update({ data: { <counter>: { increment: d } } }): one SQL
\* UPDATE, applied to the row as it is now.
IncrementCounter(tbl, uid, counter, d) ==
  [ tbl EXCEPT ![uid][counter] = @ + d ]

\* prisma.resume.update({ where: { id }, data }) on an existing row.
SetStatus(tbl, rid, status) ==
  [ tbl EXCEPT ![rid].status = status ]

\* Any write by `actor` to a user's counters is seen by the other requests
\* in flight.
Touched(actor) ==
  [ q \in Procs |-> IF q # actor /\ pc[q] # "idle" THEN FALSE ELSE alone[q] ]

Counters(uid) ==
  IF uid \in DOMAIN users
    THEN [ ats |-> users[uid].ppuAtsCredits,
           opt |-> users[uid].ppuOptimizationCredits ]
    ELSE [ ats |-> 0, opt |-> 0 ]

\* The record of a credit of request p: used by its success when the
\* request had consumed one, lost when its rollback write failed.
Record(p, field, kind, happened) ==
  IF happened /\ req[p].userId \in DOMAIN ledger
    THEN [ ledger EXCEPT ![req[p].userId][field][kind] = @ + 1 ]
    ELSE ledger

(***************************************************************************)
(* Entitlement gates.                                                      *)
(***************************************************************************)
AtsGateRejects_Strict(u) ==
  u.subscriptionStatus # "premium" /\ u.ppuAtsCredits < 0

\* resumes.js:1892
AtsGateRejects(u) ==
  u.subscriptionStatus # "premium" /\ u.ppuAtsCredits <= 0

\* resumes.js:2049
OptGateRejects(u) ==
  u.subscriptionStatus # "premium" /\ u.ppuOptimizationCredits <= 0

ConsumesCredit_Always(u) == TRUE

\* resumes.js:1896, 2054
ConsumesCredit(u) == u.subscriptionStatus # "premium"

(***************************************************************************)
(* Outcomes of the external analysis capability that pass the handlers'    *)
(* structural check (typeof score === 'number', arrays present).           *)
(***************************************************************************)
AtsResults == { [ atsScore |-> s, feedback |-> "ats_feedback" ] : s \in {55, 140} }
OptResults ==
  { [ optimizationScore |-> s, keywordAnalysis |-> "keywords",
      suggestions |-> "suggestions" ] : s \in {45} }
NoResult == [ none |-> TRUE ]

(***************************************************************************)
(* A request arrives at a free slot.                                       *)
(***************************************************************************)
Free(p) == pc[p] \in {"idle", "done"}

Arrive(p, kind, first) ==
  /\ Free(p)
  /\ \A q \in Procs : q < p => ~Free(q)
  /\ nReq < quota
  /\ \E r \in Requests :
       /\ req' = [ req EXCEPT ![p] =
                     [ kind |-> kind, userId |-> r[1], resumeId |-> r[2] ] ]
       /\ credBefore' = [ credBefore EXCEPT ![p] = Counters(r[1]) ]
  /\ nReq' = nReq + 1
  /\ pc' = [ pc EXCEPT ![p] = first ]
  /\ user' = [ user EXCEPT ![p] = Null ]
  /\ resume' = [ resume EXCEPT ![p] = Null ]
  /\ usedPpuCredit' = [ usedPpuCredit EXCEPT ![p] = FALSE ]
  /\ analysisResult' = [ analysisResult EXCEPT ![p] = NoResult ]
  /\ resp' = [ resp EXCEPT ![p] = Null ]
  /\ rollback' = [ rollback EXCEPT ![p] = "none" ]
  /\ alone' = [ alone EXCEPT ![p] = TRUE ]
  /\ UNCHANGED << dbVars, whVars, quota, ledger >>

\* res.status(code).json(...) at the end of the handler or followed by
\* return: the handler is finished and its locals are gone (usedPpuCredit is
\* kept as the record of what the request did).
Reply(p, code, tag) ==
  /\ resp' = [ resp EXCEPT ![p] = Response(code, tag) ]
  /\ pc' = [ pc EXCEPT ![p] = "done" ]
  /\ user' = [ user EXCEPT ![p] = Null ]
  /\ resume' = [ resume EXCEPT ![p] = Null ]
  /\ analysisResult' = [ analysisResult EXCEPT ![p] = NoResult ]

Throw_SkipRollback(p, used, rollbackPc, failedPc) ==
  pc' = [ pc EXCEPT ![p] = failedPc ]

\* A rejected await inside the outer try: control passes to the catch block,
\* whose first storage operation is the rollback when a credit was used.
Throw(p, used, rollbackPc, failedPc) ==
  pc' = [ pc EXCEPT ![p] = IF used THEN rollbackPc ELSE failedPc ]

(***************************************************************************)
(* POST /:resumeId/detailed-ats-report                                     *)
(***************************************************************************)
DetailedAts_Start(p) == Arrive(p, "detailed_ats", "da_findUser")

\* const user = await prisma.user.findUnique(...); the lookup itself is
\* taken to succeed.
DetailedAts_FindUser(p) ==
  /\ pc[p] = "da_findUser"
  /\ IF req[p].userId \notin DOMAIN users
       THEN Reply(p, 404, "user_not_found")
       ELSE /\ user' = [ user EXCEPT ![p] = Some(users[req[p].userId]) ]
            /\ pc' = [ pc EXCEPT ![p] = "da_findResume" ]
            /\ UNCHANGED << resume, analysisResult, resp >>
  /\ UNCHANGED << dbVars, whVars, req, usedPpuCredit, rollback, credBefore,
                  alone, nReq, quota, ledger >>

DetailedAts_FindResume_StatusBlocked(p) ==
  /\ pc[p] = "da_findResume"
  /\ IF req[p].resumeId \notin DOMAIN resumes
      THEN Reply(p, 404, "resume_not_found")
      ELSE LET r == resumes[req[p].resumeId] IN
              IF r.userId # req[p].userId
                THEN Reply(p, 403, "not_owner")
                ELSE IF \/ AtsGateRejects(Val(user[p]))
                        \/ r.status = "detailed_ats_failed"
                  THEN Reply(p, 403, "no_credit")
                  ELSE /\ resume' = [ resume EXCEPT ![p] =
                                        Some(Columns(r)) ]
                       /\ pc' = [ pc EXCEPT ![p] =
                                    IF ConsumesCredit(Val(user[p]))
                                      THEN "da_consume"
                                      ELSE "da_setPending" ]
                       /\ UNCHANGED << user, analysisResult, resp >>
  /\ UNCHANGED << dbVars, whVars, req, usedPpuCredit, rollback, credBefore,
                  alone, nReq, quota, ledger >>

\* const resume = await prisma.resume.findUnique(...) (taken to succeed),
\* then the checks up to the next await.
DetailedAts_FindResume(p) ==
  /\ pc[p] = "da_findResume"
  /\ IF req[p].resumeId \notin DOMAIN resumes
      THEN Reply(p, 404, "resume_not_found")
      ELSE LET r == resumes[req[p].resumeId] IN
              IF r.userId # req[p].userId
                THEN Reply(p, 403, "not_owner")
                ELSE IF AtsGateRejects(Val(user[p]))
                  THEN Reply(p, 403, "no_credit")
                  ELSE /\ resume' = [ resume EXCEPT ![p] =
                                        Some(Columns(r)) ]
                       /\ pc' = [ pc EXCEPT ![p] =
                                    IF ConsumesCredit(Val(user[p]))
                                      THEN "da_consume"
                                      ELSE "da_setPending" ]
                       /\ UNCHANGED << user, analysisResult, resp >>
  /\ UNCHANGED << dbVars, whVars, req, usedPpuCredit, rollback, credBefore,
                  alone, nReq, quota, ledger >>

DetailedAts_Consume_FromCopy(p) ==
  /\ pc[p] = "da_consume"
  /\ \E ok \in BOOLEAN :
       IF ok
         THEN /\ users' = [ users EXCEPT ![req[p].userId].ppuAtsCredits =
                                            Val(user[p]).ppuAtsCredits - 1 ]
              /\ usedPpuCredit' = [ usedPpuCredit EXCEPT ![p] = TRUE ]
              /\ alone' = Touched(p)
              /\ pc' = [ pc EXCEPT ![p] = "da_setPending" ]
              /\ UNCHANGED << user, resume, analysisResult, resp >>
         ELSE /\ Reply(p, 500, "credit_write_failed")
              /\ UNCHANGED << users, usedPpuCredit, alone >>
  /\ UNCHANGED << resumes, reviewOrders, whVars, req, rollback, credBefore,
                  nReq, quota, ledger >>

\* await prisma.user.update({ data: { ppuAtsCredits: { decrement: 1 } } })
DetailedAts_Consume(p) ==
  /\ pc[p] = "da_consume"
  /\ \E ok \in BOOLEAN :
       IF ok
         THEN /\ users' = IncrementCounter(users, req[p].userId,
                                           "ppuAtsCredits", -1)
              /\ usedPpuCredit' = [ usedPpuCredit EXCEPT ![p] = TRUE ]
              /\ alone' = Touched(p)
              /\ pc' = [ pc EXCEPT ![p] = "da_setPending" ]
              /\ UNCHANGED << user, resume, analysisResult, resp >>
         ELSE /\ Reply(p, 500, "credit_write_failed")
              /\ UNCHANGED << users, usedPpuCredit, alone >>
  /\ UNCHANGED << resumes, reviewOrders, whVars, req, rollback, credBefore,
                  nReq, quota, ledger >>

DetailedAts_SetPending_Skips(p) ==
  /\ pc[p] = "da_setPending"
  /\ \E ok \in BOOLEAN :
       IF ok
         THEN /\ resumes' = resumes
              /\ pc' = [ pc EXCEPT ![p] =
                           IF IsNull(Val(resume[p]).fileUrl)
                             THEN "da_missingFile" ELSE "da_extract" ]
         ELSE /\ Throw(p, usedPpuCredit[p], "da_rollback", "da_markFailed")
              /\ UNCHANGED resumes
  /\ UNCHANGED << users, reviewOrders, whVars, req, user, resume,
                  usedPpuCredit, analysisResult, resp, rollback, credBefore,
                  alone, nReq, quota, ledger >>

\* await prisma.resume.update({ data: { status: 'detailed_ats_pending' } }),
\* then the test of resume.fileUrl.
DetailedAts_SetPending(p) ==
  /\ pc[p] = "da_setPending"
  /\ \E ok \in BOOLEAN :
       IF ok
         THEN /\ resumes' = SetStatus(resumes, req[p].resumeId,
                                      "detailed_ats_pending")
              /\ pc' = [ pc EXCEPT ![p] =
                           IF IsNull(Val(resume[p]).fileUrl)
                             THEN "da_missingFile" ELSE "da_extract" ]
         ELSE /\ Throw(p, usedPpuCredit[p], "da_rollback", "da_markFailed")
              /\ UNCHANGED resumes
  /\ UNCHANGED << users, reviewOrders, whVars, req, user, resume,
                  usedPpuCredit, analysisResult, resp, rollback, credBefore,
                  alone, nReq, quota, ledger >>

\* await prisma.resume.update({ data: { status: 'detailed_ats_failed' } });
\* throw new Error('Resume file URL is missing.')
DetailedAts_MissingFile(p) ==
  /\ pc[p] = "da_missingFile"
  /\ \E ok \in BOOLEAN :
       resumes' = IF ok THEN SetStatus(resumes, req[p].resumeId,
                                       "detailed_ats_failed")
                        ELSE resumes
  /\ Throw(p, usedPpuCredit[p], "da_rollback", "da_markFailed")
  /\ UNCHANGED << users, reviewOrders, whVars, req, user, resume,
                  usedPpuCredit, analysisResult, resp, rollback, credBefore,
                  alone, nReq, quota, ledger >>

\* const resumeText = await extractTextFromFile(...)
DetailedAts_Extract(p) ==
  /\ pc[p] = "da_extract"
  /\ \E ok \in BOOLEAN :
       IF ok THEN pc' = [ pc EXCEPT ![p] = "da_analyze" ]
             ELSE Throw(p, usedPpuCredit[p], "da_rollback", "da_markFailed")
  /\ UNCHANGED << dbVars, whVars, req, user, resume, usedPpuCredit,
                  analysisResult, resp, rollback, credBefore, alone, nReq, quota, ledger >>

\* const analysisResult = await callGeminiForDetailedATS(resumeText)
DetailedAts_Analyze(p) ==
  /\ pc[p] = "da_analyze"
  /\ \/ \E a \in AtsResults :
          /\ analysisResult' = [ analysisResult EXCEPT ![p] = a ]
          /\ pc' = [ pc EXCEPT ![p] = "da_persist" ]
     \/ /\ Throw(p, usedPpuCredit[p], "da_rollback", "da_markFailed")
        /\ UNCHANGED analysisResult
  /\ UNCHANGED << dbVars, whVars, req, user, resume, usedPpuCredit, resp,
                  rollback, credBefore, alone, nReq, quota, ledger >>

DetailedAts_Persist_NoStamp(p) ==
  /\ pc[p] = "da_persist"
  /\ \E ok \in BOOLEAN :
       IF ok
         THEN /\ resumes' =
                   [ resumes EXCEPT ![req[p].resumeId] =
                       [ @ EXCEPT !.atsScore = Some(analysisResult[p].atsScore),
                                  !.feedback = Some(analysisResult[p].feedback),
                                  !.status = "detailed_ats_complete" ] ]
              /\ Reply(p, 200, "ok")
              /\ ledger' = Record(p, "used", "ats", usedPpuCredit[p])
         ELSE /\ Throw(p, usedPpuCredit[p], "da_rollback", "da_markFailed")
              /\ UNCHANGED << resumes, user, resume, analysisResult, resp,
                              ledger >>
  /\ UNCHANGED << users, reviewOrders, whVars, req, usedPpuCredit, rollback,
                  credBefore, alone, nReq, quota >>

DetailedAts_Persist_ClearsOptimization(p) ==
  /\ pc[p] = "da_persist"
  /\ \E ok \in BOOLEAN :
       IF ok
         THEN /\ resumes' =
                   [ resumes EXCEPT ![req[p].resumeId] =
                       [ @ EXCEPT !.atsScore = Some(analysisResult[p].atsScore),
                                  !.feedback = Some(analysisResult[p].feedback),
                                  !.optimizationScore = Null,
                                  !.status = "detailed_ats_complete",
                                  !.completedAt = Some(req[p].kind) ] ]
              /\ Reply(p, 200, "ok")
              /\ ledger' = Record(p, "used", "ats", usedPpuCredit[p])
         ELSE /\ Throw(p, usedPpuCredit[p], "da_rollback", "da_markFailed")
              /\ UNCHANGED << resumes, user, resume, analysisResult, resp,
                              ledger >>
  /\ UNCHANGED << users, reviewOrders, whVars, req, usedPpuCredit, rollback,
                  credBefore, alone, nReq, quota >>

\* updatedResumeRecord = await prisma.resume.update(...); res.json(...)
DetailedAts_Persist(p) ==
  /\ pc[p] = "da_persist"
  /\ \E ok \in BOOLEAN :
       IF ok
         THEN /\ resumes' =
                   [ resumes EXCEPT ![req[p].resumeId] =
                       [ @ EXCEPT !.atsScore = Some(analysisResult[p].atsScore),
                                  !.feedback = Some(analysisResult[p].feedback),
                                  !.status = "detailed_ats_complete",
                                  !.completedAt = Some(req[p].kind) ] ]
              /\ Reply(p, 200, "ok")
              /\ ledger' = Record(p, "used", "ats", usedPpuCredit[p])
         ELSE /\ Throw(p, usedPpuCredit[p], "da_rollback", "da_markFailed")
              /\ UNCHANGED << resumes, user, resume, analysisResult, resp,
                              ledger >>
  /\ UNCHANGED << users, reviewOrders, whVars, req, usedPpuCredit, rollback,
                  credBefore, alone, nReq, quota >>

DetailedAts_Rollback_Aborts(p) ==
  /\ pc[p] = "da_rollback"
  /\ \E ok \in BOOLEAN :
       IF ok
         THEN /\ users' = IncrementCounter(users, req[p].userId,
                                           "ppuAtsCredits", 1)
              /\ rollback' = [ rollback EXCEPT ![p] = "done" ]
              /\ alone' = Touched(p)
              /\ pc' = [ pc EXCEPT ![p] = "da_markFailed" ]
              /\ UNCHANGED << ledger, user, resume, analysisResult, resp >>
         ELSE /\ rollback' = [ rollback EXCEPT ![p] = "failed" ]
              /\ ledger' = Record(p, "lost", "ats", TRUE)
              /\ Reply(p, 500, "failed")
              /\ UNCHANGED << users, alone >>
  /\ UNCHANGED << resumes, reviewOrders, whVars, req, usedPpuCredit,
                  credBefore, nReq, quota >>

\* catch: if (usedPpuCredit) await prisma.user.update({ increment: 1 }),
\* itself inside a try whose catch only logs.
DetailedAts_Rollback(p) ==
  /\ pc[p] = "da_rollback"
  /\ \E ok \in BOOLEAN :
       IF ok
         THEN /\ users' = IncrementCounter(users, req[p].userId,
                                           "ppuAtsCredits", 1)
              /\ rollback' = [ rollback EXCEPT ![p] = "done" ]
              /\ alone' = Touched(p)
              /\ UNCHANGED ledger
         ELSE /\ rollback' = [ rollback EXCEPT ![p] = "failed" ]
              /\ ledger' = Record(p, "lost", "ats", TRUE)
              /\ UNCHANGED << users, alone >>
  /\ pc' = [ pc EXCEPT ![p] = "da_markFailed" ]
  /\ UNCHANGED << resumes, reviewOrders, whVars, req, user, resume,
                  usedPpuCredit, analysisResult, resp, credBefore, nReq, quota >>

DetailedAts_MarkFailed_Reverts(p) ==
  /\ pc[p] = "da_markFailed"
  /\ \E ok \in BOOLEAN :
       resumes' = IF ok /\ req[p].resumeId \in DOMAIN resumes
                    THEN SetStatus(resumes, req[p].resumeId,
                                   "basic_ats_complete")
                    ELSE resumes
  /\ Reply(p, 500, "failed")
  /\ UNCHANGED << users, reviewOrders, whVars, req, usedPpuCredit, rollback,
                  credBefore, alone, nReq, quota, ledger >>

\* catch: await prisma.resume.update({ status: 'detailed_ats_failed' }) in a
\* try whose catch only logs; then res.status(500).
DetailedAts_MarkFailed(p) ==
  /\ pc[p] = "da_markFailed"
  /\ \E ok \in BOOLEAN :
       resumes' = IF ok /\ req[p].resumeId \in DOMAIN resumes
                    THEN SetStatus(resumes, req[p].resumeId,
                                   "detailed_ats_failed")
                    ELSE resumes
  /\ Reply(p, 500, "failed")
  /\ UNCHANGED << users, reviewOrders, whVars, req, usedPpuCredit, rollback,
                  credBefore, alone, nReq, quota, ledger >>

(***************************************************************************)
(* POST /:resumeId/job-optimization                                        *)
(***************************************************************************)
JobOpt_Start(p) == Arrive(p, "job_opt", "jo_findUser")

\* const user = await prisma.user.findUnique(...); the lookup itself is
\* taken to succeed.
JobOpt_FindUser(p) ==
  /\ pc[p] = "jo_findUser"
  /\ IF req[p].userId \notin DOMAIN users
       THEN Reply(p, 404, "user_not_found")
       ELSE /\ user' = [ user EXCEPT ![p] = Some(users[req[p].userId]) ]
            /\ pc' = [ pc EXCEPT ![p] = "jo_findResume" ]
            /\ UNCHANGED << resume, analysisResult, resp >>
  /\ UNCHANGED << dbVars, whVars, req, usedPpuCredit, rollback, credBefore,
                  alone, nReq, quota, ledger >>

JobOpt_FindResume_GateFirst(p) ==
  /\ pc[p] = "jo_findResume"
  /\ IF req[p].resumeId \notin DOMAIN resumes
      THEN Reply(p, 404, "resume_not_found")
      ELSE LET r == resumes[req[p].resumeId] IN
              IF r.userId # req[p].userId
                THEN Reply(p, 403, "not_owner")
                ELSE IF OptGateRejects(Val(user[p]))
                  THEN Reply(p, 403, "no_credit")
                  ELSE IF IsNull(r.jobDescription)
                    THEN Reply(p, 400, "no_job_description")
                    ELSE /\ resume' = [ resume EXCEPT ![p] =
                                          Some(Columns(r)) ]
                         /\ pc' = [ pc EXCEPT ![p] =
                                      IF ConsumesCredit(Val(user[p]))
                                        THEN "jo_consume"
                                        ELSE "jo_setPending" ]
                         /\ UNCHANGED << user, analysisResult, resp >>
  /\ UNCHANGED << dbVars, whVars, req, usedPpuCredit, rollback, credBefore,
                  alone, nReq, quota, ledger >>

\* const resume = await prisma.resume.findUnique(...) (taken to succeed),
\* then the checks up to the next await.
JobOpt_FindResume(p) ==
  /\ pc[p] = "jo_findResume"
  /\ IF req[p].resumeId \notin DOMAIN resumes
      THEN Reply(p, 404, "resume_not_found")
      ELSE LET r == resumes[req[p].resumeId] IN
              IF r.userId # req[p].userId
                THEN Reply(p, 403, "not_owner")
                ELSE IF IsNull(r.jobDescription)
                  THEN Reply(p, 400, "no_job_description")
                  ELSE IF OptGateRejects(Val(user[p]))
                    THEN Reply(p, 403, "no_credit")
                    ELSE /\ resume' = [ resume EXCEPT ![p] =
                                          Some(Columns(r)) ]
                         /\ pc' = [ pc EXCEPT ![p] =
                                      IF ConsumesCredit(Val(user[p]))
                                        THEN "jo_consume"
                                        ELSE "jo_setPending" ]
                         /\ UNCHANGED << user, analysisResult, resp >>
  /\ UNCHANGED << dbVars, whVars, req, usedPpuCredit, rollback, credBefore,
                  alone, nReq, quota, ledger >>

JobOpt_Consume_Adds(p) ==
  /\ pc[p] = "jo_consume"
  /\ \E ok \in BOOLEAN :
       IF ok
         THEN /\ users' = IncrementCounter(users, req[p].userId,
                                           "ppuOptimizationCredits", -1)
              /\ resumes' =
                   [ resumes EXCEPT
                       ![req[p].resumeId].ppuOptimizationClicksRemaining =
                          Some((IF IsNull(@) THEN 0 ELSE Val(@)) +
                               PPU_CLICK_LIMIT) ]
              /\ usedPpuCredit' = [ usedPpuCredit EXCEPT ![p] = TRUE ]
              /\ alone' = Touched(p)
              /\ pc' = [ pc EXCEPT ![p] = "jo_setPending" ]
              /\ UNCHANGED << user, resume, analysisResult, resp >>
         ELSE /\ Reply(p, 500, "credit_write_failed")
              /\ UNCHANGED << users, resumes, usedPpuCredit, alone >>
  /\ UNCHANGED << reviewOrders, whVars, req, rollback, credBefore, nReq, quota, ledger >>

JobOpt_Consume_Partial(p) ==
  /\ pc[p] = "jo_consume"
  /\ \E ok \in BOOLEAN :
       /\ users' = IncrementCounter(users, req[p].userId,
                                    "ppuOptimizationCredits", -1)
       /\ alone' = Touched(p)
       /\ IF ok
            THEN /\ resumes' =
                      [ resumes EXCEPT
                          ![req[p].resumeId].ppuOptimizationClicksRemaining =
                             Some(PPU_CLICK_LIMIT) ]
                 /\ usedPpuCredit' = [ usedPpuCredit EXCEPT ![p] = TRUE ]
                 /\ pc' = [ pc EXCEPT ![p] = "jo_setPending" ]
                 /\ UNCHANGED << user, resume, analysisResult, resp >>
            ELSE /\ Reply(p, 500, "credit_write_failed")
                 /\ UNCHANGED << resumes, usedPpuCredit >>
  /\ UNCHANGED << reviewOrders, whVars, req, rollback, credBefore, nReq, quota, ledger >>

\* await prisma.$transaction(tx => { tx.user.update(decrement 1);
\*                                   tx.resume.update(clicks := 5) })
JobOpt_Consume(p) ==
  /\ pc[p] = "jo_consume"
  /\ \E ok \in BOOLEAN :
       IF ok
         THEN /\ users' = IncrementCounter(users, req[p].userId,
                                           "ppuOptimizationCredits", -1)
              /\ resumes' =
                   [ resumes EXCEPT
                       ![req[p].resumeId].ppuOptimizationClicksRemaining =
                          Some(PPU_CLICK_LIMIT) ]
              /\ usedPpuCredit' = [ usedPpuCredit EXCEPT ![p] = TRUE ]
              /\ alone' = Touched(p)
              /\ pc' = [ pc EXCEPT ![p] = "jo_setPending" ]
              /\ UNCHANGED << user, resume, analysisResult, resp >>
         ELSE /\ Reply(p, 500, "credit_write_failed")
              /\ UNCHANGED << users, resumes, usedPpuCredit, alone >>
  /\ UNCHANGED << reviewOrders, whVars, req, rollback, credBefore, nReq, quota, ledger >>

\* await prisma.resume.update({ data: { status: 'job_opt_pending' } }), then
\* the test of resume.fileUrl.
JobOpt_SetPending(p) ==
  /\ pc[p] = "jo_setPending"
  /\ \E ok \in BOOLEAN :
       IF ok
         THEN /\ resumes' = SetStatus(resumes, req[p].resumeId,
                                      "job_opt_pending")
              /\ pc' = [ pc EXCEPT ![p] =
                           IF IsNull(Val(resume[p]).fileUrl)
                             THEN "jo_missingFile" ELSE "jo_extract" ]
         ELSE /\ Throw(p, usedPpuCredit[p], "jo_rollback", "jo_markFailed")
              /\ UNCHANGED resumes
  /\ UNCHANGED << users, reviewOrders, whVars, req, user, resume,
                  usedPpuCredit, analysisResult, resp, rollback, credBefore,
                  alone, nReq, quota, ledger >>

\* await prisma.resume.update({ data: { status: 'job_opt_failed' } });
\* throw new Error('Resume file URL is missing.')
JobOpt_MissingFile(p) ==
  /\ pc[p] = "jo_missingFile"
  /\ \E ok \in BOOLEAN :
       resumes' = IF ok THEN SetStatus(resumes, req[p].resumeId,
                                       "job_opt_failed")
                        ELSE resumes
  /\ Throw(p, usedPpuCredit[p], "jo_rollback", "jo_markFailed")
  /\ UNCHANGED << users, reviewOrders, whVars, req, user, resume,
                  usedPpuCredit, analysisResult, resp, rollback, credBefore,
                  alone, nReq, quota, ledger >>

\* const resumeText = await extractTextFromFile(...)
JobOpt_Extract(p) ==
  /\ pc[p] = "jo_extract"
  /\ \E ok \in BOOLEAN :
       IF ok THEN pc' = [ pc EXCEPT ![p] = "jo_analyze" ]
             ELSE Throw(p, usedPpuCredit[p], "jo_rollback", "jo_markFailed")
  /\ UNCHANGED << dbVars, whVars, req, user, resume, usedPpuCredit,
                  analysisResult, resp, rollback, credBefore, alone, nReq, quota, ledger >>

\* const analysisResult = await callGeminiForJobOptimization(...)
JobOpt_Analyze(p) ==
  /\ pc[p] = "jo_analyze"
  /\ \/ \E a \in OptResults :
          /\ analysisResult' = [ analysisResult EXCEPT ![p] = a ]
          /\ pc' = [ pc EXCEPT ![p] = "jo_persist" ]
     \/ /\ Throw(p, usedPpuCredit[p], "jo_rollback", "jo_markFailed")
        /\ UNCHANGED analysisResult
  /\ UNCHANGED << dbVars, whVars, req, user, resume, usedPpuCredit, resp,
                  rollback, credBefore, alone, nReq, quota, ledger >>

JobOpt_Persist_WritesAts(p) ==
  /\ pc[p] = "jo_persist"
  /\ \E ok \in BOOLEAN :
       IF ok
         THEN /\ resumes' =
                   [ resumes EXCEPT ![req[p].resumeId] =
                       [ @ EXCEPT
                           !.optimizationScore =
                              Some(analysisResult[p].optimizationScore),
                           !.keywordAnalysis =
                              Some(analysisResult[p].keywordAnalysis),
                           !.feedback = Some(analysisResult[p].suggestions),
                           !.atsScore =
                              Some(analysisResult[p].optimizationScore),
                           !.status = "job_opt_complete",
                           !.completedAt = Some(req[p].kind) ] ]
              /\ Reply(p, 200, "ok")
              /\ ledger' = Record(p, "used", "opt", usedPpuCredit[p])
         ELSE /\ Throw(p, usedPpuCredit[p], "jo_rollback", "jo_markFailed")
              /\ UNCHANGED << resumes, user, resume, analysisResult, resp,
                              ledger >>
  /\ UNCHANGED << users, reviewOrders, whVars, req, usedPpuCredit, rollback,
                  credBefore, alone, nReq, quota >>

\* updatedResumeRecord = await prisma.resume.update(...); res.json(...)
JobOpt_Persist(p) ==
  /\ pc[p] = "jo_persist"
  /\ \E ok \in BOOLEAN :
       IF ok
         THEN /\ resumes' =
                   [ resumes EXCEPT ![req[p].resumeId] =
                       [ @ EXCEPT
                           !.optimizationScore =
                              Some(analysisResult[p].optimizationScore),
                           !.keywordAnalysis =
                              Some(analysisResult[p].keywordAnalysis),
                           !.feedback = Some(analysisResult[p].suggestions),
                           !.status = "job_opt_complete",
                           !.completedAt = Some(req[p].kind) ] ]
              /\ Reply(p, 200, "ok")
              /\ ledger' = Record(p, "used", "opt", usedPpuCredit[p])
         ELSE /\ Throw(p, usedPpuCredit[p], "jo_rollback", "jo_markFailed")
              /\ UNCHANGED << resumes, user, resume, analysisResult, resp,
                              ledger >>
  /\ UNCHANGED << users, reviewOrders, whVars, req, usedPpuCredit, rollback,
                  credBefore, alone, nReq, quota >>

JobOpt_Rollback_Twice(p) ==
  /\ pc[p] = "jo_rollback"
  /\ \E ok \in BOOLEAN :
       IF ok
         THEN /\ users' = IncrementCounter(users, req[p].userId,
                                           "ppuOptimizationCredits", 2)
              /\ rollback' = [ rollback EXCEPT ![p] = "done" ]
              /\ alone' = Touched(p)
              /\ UNCHANGED ledger
         ELSE /\ rollback' = [ rollback EXCEPT ![p] = "failed" ]
              /\ ledger' = Record(p, "lost", "opt", TRUE)
              /\ UNCHANGED << users, alone >>
  /\ pc' = [ pc EXCEPT ![p] = "jo_markFailed" ]
  /\ UNCHANGED << resumes, reviewOrders, whVars, req, user, resume,
                  usedPpuCredit, analysisResult, resp, credBefore, nReq, quota >>

\* catch: if (usedPpuCredit) await prisma.user.update({ increment: 1 }),
\* itself inside a try whose catch only logs.
JobOpt_Rollback(p) ==
  /\ pc[p] = "jo_rollback"
  /\ \E ok \in BOOLEAN :
       IF ok
         THEN /\ users' = IncrementCounter(users, req[p].userId,
                                           "ppuOptimizationCredits", 1)
              /\ rollback' = [ rollback EXCEPT ![p] = "done" ]
              /\ alone' = Touched(p)
              /\ UNCHANGED ledger
         ELSE /\ rollback' = [ rollback EXCEPT ![p] = "failed" ]
              /\ ledger' = Record(p, "lost", "opt", TRUE)
              /\ UNCHANGED << users, alone >>
  /\ pc' = [ pc EXCEPT ![p] = "jo_markFailed" ]
  /\ UNCHANGED << resumes, reviewOrders, whVars, req, user, resume,
                  usedPpuCredit, analysisResult, resp, credBefore, nReq, quota >>

JobOpt_MarkFailed_StaysPending(p) ==
  /\ pc[p] = "jo_markFailed"
  /\ \E ok \in BOOLEAN :
       resumes' = IF ok /\ req[p].resumeId \in DOMAIN resumes
                    THEN SetStatus(resumes, req[p].resumeId, "job_opt_pending")
                    ELSE resumes
  /\ Reply(p, 500, "failed")
  /\ UNCHANGED << users, reviewOrders, whVars, req, usedPpuCredit, rollback,
                  credBefore, alone, nReq, quota, ledger >>

\* catch: await prisma.resume.update({ status: 'job_opt_failed' }) in a try
\* whose catch only logs; then res.status(500).
JobOpt_MarkFailed(p) ==
  /\ pc[p] = "jo_markFailed"
  /\ \E ok \in BOOLEAN :
       resumes' = IF ok /\ req[p].resumeId \in DOMAIN resumes
                    THEN SetStatus(resumes, req[p].resumeId, "job_opt_failed")
                    ELSE resumes
  /\ Reply(p, 500, "failed")
  /\ UNCHANGED << users, reviewOrders, whVars, req, usedPpuCredit, rollback,
                  credBefore, alone, nReq, quota, ledger >>

(***************************************************************************)
(* POST /:resumeId/analyze-changes                                         *)
(***************************************************************************)
\* The response of analyze-changes, which reports ppuClicksRemaining.
ClicksResponse(code, tag, clicks) ==
  Some([ code |-> code, error |-> tag, ppuClicksRemaining |-> clicks ])

ReplyClicks(p, code, tag, clicks) ==
  /\ resp' = [ resp EXCEPT ![p] = ClicksResponse(code, tag, clicks) ]
  /\ pc' = [ pc EXCEPT ![p] = "done" ]
  /\ user' = [ user EXCEPT ![p] = Null ]
  /\ resume' = [ resume EXCEPT ![p] = Null ]
  /\ analysisResult' = [ analysisResult EXCEPT ![p] = NoResult ]

ClickGateRejects_Strict(u, r) ==
  /\ u.subscriptionStatus # "premium"
  /\ IsNull(r.ppuOptimizationClicksRemaining)

\* resumes.js:2178-2179
ClickGateRejects(u, r) ==
  /\ u.subscriptionStatus # "premium"
  /\ \/ IsNull(r.ppuOptimizationClicksRemaining)
     \/ Val(r.ppuOptimizationClicksRemaining) <= 0

ConsumesClick_Always(u) == TRUE

\* resumes.js:2178
ConsumesClick(u) == u.subscriptionStatus # "premium"

\* data: { ppuOptimizationClicksRemaining: { decrement: 1 } }: one SQL UPDATE
\* on the row as it is now; NULL stays NULL.
DecrementClicks(r) ==
  [ r EXCEPT !.ppuOptimizationClicksRemaining =
      IF IsNull(@) THEN Null ELSE Some(Val(@) - 1) ]

\* let newClicksRemaining = null, assigned from the updated row only on the
\* non-premium path.
NewClicksRemaining(p) ==
  IF ConsumesClick(Val(user[p]))
    THEN Val(resume[p]).ppuOptimizationClicksRemaining
    ELSE Null

AnalyzeChanges_Start(p) == Arrive(p, "analyze_changes", "ac_findUser")

\* typeof editedResumeText !== 'string': 400 before any storage operation.
AnalyzeChanges_BadBody(p) ==
  /\ Free(p)
  /\ \A q \in Procs : q < p => ~Free(q)
  /\ nReq < quota
  /\ \E r \in Requests :
       /\ req' = [ req EXCEPT ![p] =
                     [ kind |-> "analyze_changes", userId |-> r[1],
                       resumeId |-> r[2] ] ]
       /\ credBefore' = [ credBefore EXCEPT ![p] = Counters(r[1]) ]
  /\ nReq' = nReq + 1
  /\ Reply(p, 400, "no_edited_text")
  /\ usedPpuCredit' = [ usedPpuCredit EXCEPT ![p] = FALSE ]
  /\ rollback' = [ rollback EXCEPT ![p] = "none" ]
  /\ alone' = [ alone EXCEPT ![p] = TRUE ]
  /\ UNCHANGED << dbVars, whVars, quota, ledger >>

\* const user = await prisma.user.findUnique(...); the lookup itself is
\* taken to succeed.
AnalyzeChanges_FindUser(p) ==
  /\ pc[p] = "ac_findUser"
  /\ IF req[p].userId \notin DOMAIN users
       THEN Reply(p, 404, "user_not_found")
       ELSE /\ user' = [ user EXCEPT ![p] = Some(users[req[p].userId]) ]
            /\ pc' = [ pc EXCEPT ![p] = "ac_findResume" ]
            /\ UNCHANGED << resume, analysisResult, resp >>
  /\ UNCHANGED << dbVars, whVars, req, usedPpuCredit, rollback, credBefore,
                  alone, nReq, quota, ledger >>

\* The call of request p passes every check of analyze-changes and is
\* charged a click.
AdmitsOnClicks(p) ==
  /\ req[p].resumeId \in DOMAIN resumes
  /\ LET r == resumes[req[p].resumeId] IN
       /\ r.userId = req[p].userId
       /\ ~IsNull(r.jobDescription)
       /\ ~ClickGateRejects(Val(user[p]), r)
       /\ ConsumesClick(Val(user[p]))

\* let resume = await prisma.resume.findUnique(...) (taken to succeed), then
\* the checks up to the next await.
AnalyzeChanges_FindResume(p) ==
  /\ pc[p] = "ac_findResume"
  /\ IF req[p].resumeId \notin DOMAIN resumes
      THEN Reply(p, 404, "resume_not_found")
      ELSE LET r == resumes[req[p].resumeId] IN
              IF r.userId # req[p].userId
                THEN Reply(p, 403, "not_owner")
                ELSE IF IsNull(r.jobDescription)
                  THEN Reply(p, 400, "no_job_description")
                  ELSE IF ClickGateRejects(Val(user[p]), r)
                    THEN ReplyClicks(p, 403, "no_clicks", Some(0))
                    ELSE /\ resume' = [ resume EXCEPT ![p] =
                                          Some(Columns(r)) ]
                         /\ pc' = [ pc EXCEPT ![p] =
                                      IF ConsumesClick(Val(user[p]))
                                        THEN "ac_consume"
                                        ELSE "ac_analyze" ]
                         /\ UNCHANGED << user, analysisResult, resp >>
  /\ ledger' = Record(p, "calls", "admitted", AdmitsOnClicks(p))
  /\ UNCHANGED << dbVars, whVars, req, usedPpuCredit, rollback, credBefore,
                  alone, nReq, quota >>

\* resume = await prisma.resume.update({ data: {
\*   ppuOptimizationClicksRemaining: { decrement: 1 } } }) in its own try,
\* whose catch answers 500.
AnalyzeChanges_Consume(p) ==
  /\ pc[p] = "ac_consume"
  /\ \E ok \in BOOLEAN :
       IF ok
         THEN LET updated == DecrementClicks(resumes[req[p].resumeId]) IN
              /\ resumes' = [ resumes EXCEPT ![req[p].resumeId] = updated ]
              /\ resume' = [ resume EXCEPT ![p] = Some(Columns(updated)) ]
              /\ pc' = [ pc EXCEPT ![p] = "ac_analyze" ]
              /\ UNCHANGED << user, analysisResult, resp >>
         ELSE /\ Reply(p, 500, "click_write_failed")
              /\ UNCHANGED resumes
  /\ UNCHANGED << users, reviewOrders, whVars, req, usedPpuCredit, rollback,
                  credBefore, alone, nReq, quota, ledger >>

AnalyzeChanges_Analyze_Persists(p) ==
  /\ pc[p] = "ac_analyze"
  /\ \/ \E a \in OptResults :
          /\ ReplyClicks(p, 200, "ok", NewClicksRemaining(p))
          /\ resumes' = [ resumes EXCEPT ![req[p].resumeId].optimizationScore =
                                            Some(a.optimizationScore + 1) ]
     \/ /\ Reply(p, 500, "failed")
        /\ UNCHANGED resumes
  /\ UNCHANGED << users, reviewOrders, whVars, req, usedPpuCredit, rollback, credBefore,
                  alone, nReq, quota, ledger >>

AnalyzeChanges_Analyze_Restores(p) ==
  /\ pc[p] = "ac_analyze"
  /\ \/ /\ \E a \in OptResults :
             ReplyClicks(p, 200, "ok", NewClicksRemaining(p))
        /\ UNCHANGED resumes
     \/ /\ Reply(p, 500, "failed")
        /\ resumes' =
             [ resumes EXCEPT
                 ![req[p].resumeId].ppuOptimizationClicksRemaining =
                    IF ConsumesClick(Val(user[p])) /\ ~IsNull(@)
                      THEN Some(Val(@) + 1) ELSE @ ]
  /\ UNCHANGED << users, reviewOrders, whVars, req, usedPpuCredit, rollback,
                  credBefore, alone, nReq, quota, ledger >>

\* const analysisResult = await callGeminiForJobOptimization(...);
\* res.json({ ..., ppuClicksRemaining: newClicksRemaining }); a rejection is
\* answered 500 by the outer catch, which writes nothing.
AnalyzeChanges_Analyze(p) ==
  /\ pc[p] = "ac_analyze"
  /\ \/ \E a \in OptResults :
          ReplyClicks(p, 200, "ok", NewClicksRemaining(p))
     \/ Reply(p, 500, "failed")
  /\ UNCHANGED << dbVars, whVars, req, usedPpuCredit, rollback, credBefore,
                  alone, nReq, quota, ledger >>

(***************************************************************************)
(* PUT /:resumeId/job-description                                          *)
(***************************************************************************)
\* req.body.jobDescription: absent (or not a string), empty, blank, or a
\* text.
Bodies == { Null, Some(""), Some("  "), Some("job text") }

\* String.prototype.trim on the texts of Bodies.
Trim(text) == IF text = "  " THEN "" ELSE text

ValidJobDescription_NoTrim(body) ==
  /\ ~IsNull(body)
  /\ Val(body) # ""

\* !(typeof jobDescription !== 'string' || jobDescription.trim() === '')
ValidJobDescription(body) ==
  /\ ~IsNull(body)
  /\ Trim(Val(body)) # ""

\* The request arrives with an accepted body, which the handler keeps.
JobDescription_Start(p) ==
  /\ Free(p)
  /\ \A q \in Procs : q < p => ~Free(q)
  /\ nReq < quota
  /\ \E r \in Requests, body \in Bodies :
       /\ ValidJobDescription(body)
       /\ req' = [ req EXCEPT ![p] =
                     [ kind |-> "job_description", userId |-> r[1],
                       resumeId |-> r[2], jobDescription |-> Val(body) ] ]
       /\ credBefore' = [ credBefore EXCEPT ![p] = Counters(r[1]) ]
  /\ nReq' = nReq + 1
  /\ pc' = [ pc EXCEPT ![p] = "jd_findResume" ]
  /\ user' = [ user EXCEPT ![p] = Null ]
  /\ resume' = [ resume EXCEPT ![p] = Null ]
  /\ usedPpuCredit' = [ usedPpuCredit EXCEPT ![p] = FALSE ]
  /\ analysisResult' = [ analysisResult EXCEPT ![p] = NoResult ]
  /\ resp' = [ resp EXCEPT ![p] = Null ]
  /\ rollback' = [ rollback EXCEPT ![p] = "none" ]
  /\ alone' = [ alone EXCEPT ![p] = TRUE ]
  /\ UNCHANGED << dbVars, whVars, quota, ledger >>

\* typeof jobDescription !== 'string' || jobDescription.trim() === '': 400
\* before any storage operation.
JobDescription_BadBody(p) ==
  /\ Free(p)
  /\ \A q \in Procs : q < p => ~Free(q)
  /\ nReq < quota
  /\ \E body \in Bodies : ~ValidJobDescription(body)
  /\ \E r \in Requests :
       /\ req' = [ req EXCEPT ![p] =
                     [ kind |-> "job_description", userId |-> r[1],
                       resumeId |-> r[2] ] ]
       /\ credBefore' = [ credBefore EXCEPT ![p] = Counters(r[1]) ]
  /\ nReq' = nReq + 1
  /\ Reply(p, 400, "no_job_description_text")
  /\ usedPpuCredit' = [ usedPpuCredit EXCEPT ![p] = FALSE ]
  /\ rollback' = [ rollback EXCEPT ![p] = "none" ]
  /\ alone' = [ alone EXCEPT ![p] = TRUE ]
  /\ UNCHANGED << dbVars, whVars, quota, ledger >>

JobDescription_FindResume_AnyCaller(p) ==
  /\ pc[p] = "jd_findResume"
  /\ IF req[p].resumeId \notin DOMAIN resumes
       THEN Reply(p, 404, "resume_not_found")
       ELSE /\ pc' = [ pc EXCEPT ![p] = "jd_update" ]
            /\ UNCHANGED << user, resume, analysisResult, resp >>
  /\ UNCHANGED << dbVars, whVars, req, usedPpuCredit, rollback, credBefore,
                  alone, nReq, quota, ledger >>

\* const resume = await prisma.resume.findUnique(...) (taken to succeed),
\* then the existence and ownership checks.
JobDescription_FindResume(p) ==
  /\ pc[p] = "jd_findResume"
  /\ IF req[p].resumeId \notin DOMAIN resumes
       THEN Reply(p, 404, "resume_not_found")
       ELSE IF resumes[req[p].resumeId].userId # req[p].userId
         THEN Reply(p, 403, "not_owner")
         ELSE /\ pc' = [ pc EXCEPT ![p] = "jd_update" ]
              /\ UNCHANGED << user, resume, analysisResult, resp >>
  /\ UNCHANGED << dbVars, whVars, req, usedPpuCredit, rollback, credBefore,
                  alone, nReq, quota, ledger >>

\* await prisma.resume.update({ data: { jobDescription } }); res.json(...);
\* a rejection is answered 500 by the catch.
JobDescription_Update(p) ==
  /\ pc[p] = "jd_update"
  /\ \E ok \in BOOLEAN :
       IF ok
         THEN /\ resumes' = [ resumes EXCEPT
                                ![req[p].resumeId].jobDescription =
                                   Some(req[p].jobDescription) ]
              /\ Reply(p, 200, "ok")
         ELSE /\ Reply(p, 500, "failed")
              /\ UNCHANGED resumes
  /\ UNCHANGED << users, reviewOrders, whVars, req, usedPpuCredit, rollback,
                  credBefore, alone, nReq, quota, ledger >>

(***************************************************************************)
(* POST /webhook: events of the payment provider.                          *)
(*                                                                         *)
(* An event is identified by its content: two deliveries of the same       *)
(* record are two deliveries of one provider event.  `session` separates   *)
(* the checkout sessions of distinct purchases.  userId and resumeId are   *)
(* the values parseInt yields for the metadata strings, 0 standing for a   *)
(* missing or non-numeric string.                                          *)
(***************************************************************************)
Ev(type, session, serviceType, userId, resumeId, subscription) ==
  [ type |-> type, session |-> session, serviceType |-> serviceType,
    userId |-> userId, resumeId |-> resumeId, subscription |-> subscription ]

Sessions == {1, 2}

GrantEvents ==
  { Ev("checkout.session.completed", s, st, 1, 0, "") :
      s \in Sessions, st \in {"ppu_ats", "ppu_optimization"} }

ReviewEvents ==
  { Ev("checkout.session.completed", 1, "review", ur[1], ur[2], "") :
      ur \in { <<1, 1>>, <<1, 0>>, <<1, NoResume>>, <<0, 1>> } }

Events ==
  GrantEvents \cup ReviewEvents \cup
  { Ev("checkout.session.completed", 1, "subscription", 1, 0, "sub_A"),
    Ev("checkout.session.completed", 1, "no_metadata", 0, 0, ""),
    Ev("checkout.session.completed", 1, "unknown_service", 1, 0, ""),
    Ev("checkout.session.expired", 1, "", 0, 0, ""),
    Ev("checkout.session.expired", 1, "", 0, 1, ""),
    Ev("payment_intent.payment_failed", 1, "", 0, 0, ""),
    Ev("payment_intent.payment_failed", 1, "", 0, 1, ""),
    Ev("customer.subscription.deleted", 1, "", 0, 0, "sub_A"),
    Ev("customer.subscription.deleted", 1, "", 0, 0, "sub_B"),
    Ev("invoice.paid", 1, "", 0, 0, "") }

\* A delivery: the event and whether its stripe-signature header verifies.
Deliveries == [ sig : BOOLEAN, event : Events ]

WhResponse(code, tag) == [ code |-> code, error |-> tag ]
NoWhResponse == WhResponse(0, "")

\* The request reaches the server.
Webhook_Receive ==
  /\ IsNull(wh)
  /\ nDeliv < MaxDeliveries
  /\ \E d \in Deliveries : wh' = Some(d)
  /\ nDeliv' = nDeliv + 1
  /\ UNCHANGED << dbVars, procVars, whResp, deleting, granted >>

\* res.status(code) ...; the handler is finished.
WhReply(code, tag) ==
  /\ whResp' = WhResponse(code, tag)
  /\ wh' = Null

\* The outer catch: res.status(400).send(`Webhook Error: ${error.message}`)
WhCatch(message) == WhReply(400, message)

\* stripe.webhooks.constructEvent returns the event of the delivery in
\* flight: the handler goes on to the switch on event.type.
Verified_Unchecked ==
  ~IsNull(wh)

Verified ==
  /\ ~IsNull(wh)
  /\ Val(wh).sig

InFlight(type) ==
  /\ Verified
  /\ Val(wh).event.type = type

\* The events of one purchase of each kind of credit.
Purchases == { e \in GrantEvents : e.session = 1 }

\* A verified delivery of a credit purchase reaches the server.
Webhook_ReceivePurchase ==
  /\ IsNull(wh)
  /\ nDeliv < MaxDeliveries
  /\ \E e \in Purchases : wh' = Some([ sig |-> TRUE, event |-> e ])
  /\ nDeliv' = nDeliv + 1
  /\ UNCHANGED << dbVars, procVars, whResp, deleting, granted >>

\* stripe.webhooks.constructEvent throws.
Webhook_BadSignature ==
  /\ ~IsNull(wh)
  /\ ~Val(wh).sig
  /\ WhCatch("Webhook Error: signature")
  /\ UNCHANGED << dbVars, procVars, nDeliv, deleting, granted >>

\* checkout.session.completed: the checks before the dispatch on serviceType.
Webhook_CompletedRejected ==
  /\ InFlight("checkout.session.completed")
  /\ LET e == Val(wh).event IN
       \/ /\ e.serviceType = "no_metadata"
          /\ WhReply(400, "Missing metadata")
       \/ /\ e.serviceType # "no_metadata"
          /\ e.userId = 0
          /\ WhReply(400, "Invalid userId")
  /\ UNCHANGED << dbVars, procVars, nDeliv, deleting, granted >>

Dispatch(serviceType) ==
  /\ InFlight("checkout.session.completed")
  /\ Val(wh).event.serviceType = serviceType
  /\ Val(wh).event.userId # 0

\* serviceType === 'subscription': prisma.user.update
Webhook_Subscription ==
  /\ Dispatch("subscription")
  /\ LET e == Val(wh).event IN
     \E ok \in BOOLEAN :
       IF ok /\ e.userId \in DOMAIN users
         THEN /\ users' = [ users EXCEPT ![e.userId] =
                   [ @ EXCEPT !.stripeSubscriptionId = Some(e.subscription),
                              !.subscriptionStatus = "premium" ] ]
              /\ WhReply(200, "received")
         ELSE /\ WhCatch("Webhook Error: storage")
              /\ UNCHANGED users
  /\ UNCHANGED << resumes, reviewOrders, procVars, nDeliv, deleting, granted >>

\* The credit grant of one delivery.
GrantAmount == 1

Grant(counter) ==
  LET e == Val(wh).event IN
  \E ok \in BOOLEAN :
    IF ok /\ e.userId \in DOMAIN users
      THEN /\ users' = IncrementCounter(users, e.userId, counter, GrantAmount)
           /\ granted' = [ granted EXCEPT ![e] = @ + GrantAmount ]
           /\ alone' = Touched(0)
           /\ WhReply(200, "received")
      ELSE /\ WhCatch("Webhook Error: storage")
           /\ UNCHANGED << users, granted, alone >>

\* serviceType === 'ppu_ats'
Webhook_PpuAts ==
  /\ Dispatch("ppu_ats")
  /\ Grant("ppuAtsCredits")
  /\ UNCHANGED << resumes, reviewOrders, pc, req, user, resume, usedPpuCredit,
                  analysisResult, resp, rollback, credBefore, nReq, quota, ledger, nDeliv,
                  deleting >>

\* serviceType === 'ppu_optimization'
Webhook_PpuOptimization ==
  /\ Dispatch("ppu_optimization")
  /\ Grant("ppuOptimizationCredits")
  /\ UNCHANGED << resumes, reviewOrders, pc, req, user, resume, usedPpuCredit,
                  analysisResult, resp, rollback, credBefore, nReq, quota, ledger, nDeliv,
                  deleting >>

\* The rows of table ReviewOrder for a resume.
OrdersOf(orders, rid) ==
  { i \in DOMAIN orders : orders[i].resumeId = rid }

NewReviewOrder_Pending(uid, rid) ==
  [ userId |-> uid, resumeId |-> rid, status |-> "pending",
    paymentStatus |-> "pending", completedDate |-> Null,
    reviewerFeedback |-> Null ]

NewReviewOrder(uid, rid) ==
  [ userId |-> uid, resumeId |-> rid, status |-> "requested",
    paymentStatus |-> "success", completedDate |-> Null,
    reviewerFeedback |-> Null ]

CreateAccepted_NoUnique(orders, rs, uid, rid, fault) ==
  /\ fault # "create"
  /\ uid \in DOMAIN users
  /\ rid \in DOMAIN rs

\* reviewOrder.create succeeds when the write is not refused by the storage,
\* both foreign keys refer to rows and resumeId is not taken (@unique).
CreateAccepted(orders, rs, uid, rid, fault) ==
  /\ fault # "create"
  /\ uid \in DOMAIN users
  /\ rid \in DOMAIN rs
  /\ OrdersOf(orders, rid) = {}

\* resume.update succeeds when the write is not refused and the row exists.
UpdateAccepted(rs, rid, fault) ==
  /\ fault # "update"
  /\ rid \in DOMAIN rs

\* The two writes without a transaction: a created order stays when the
\* update of the resume fails.
ReviewTransaction_NoRollback(orders, rs, uid, rid, fault) ==
  IF CreateAccepted(orders, rs, uid, rid, fault)
    THEN IF UpdateAccepted(rs, rid, fault)
      THEN [ committed |-> TRUE,
             orders |-> Append(orders, NewReviewOrder(uid, rid)),
             resumes |-> SetStatus(rs, rid, "pending_review") ]
      ELSE [ committed |-> FALSE,
             orders |-> Append(orders, NewReviewOrder(uid, rid)),
             resumes |-> rs ]
    ELSE [ committed |-> FALSE, orders |-> orders, resumes |-> rs ]

\* prisma.$transaction(async tx => { tx.reviewOrder.create; tx.resume.update })
\* commits both writes or neither.
ReviewTransaction(orders, rs, uid, rid, fault) ==
  IF CreateAccepted(orders, rs, uid, rid, fault) /\ UpdateAccepted(rs, rid, fault)
    THEN [ committed |-> TRUE,
           orders |-> Append(orders, NewReviewOrder(uid, rid)),
           resumes |-> SetStatus(rs, rid, "pending_review") ]
    ELSE [ committed |-> FALSE, orders |-> orders, resumes |-> rs ]

Faults == {"none", "create", "update"}

\* serviceType === 'review'
Webhook_Review ==
  /\ Dispatch("review")
  /\ LET e == Val(wh).event IN
       IF e.resumeId = 0
         THEN /\ WhReply(400, "Missing resumeId for review")
              /\ UNCHANGED << reviewOrders, resumes >>
         ELSE \E fault \in Faults :
                LET t == ReviewTransaction(reviewOrders, resumes, e.userId,
                                           e.resumeId, fault) IN
                /\ reviewOrders' = t.orders
                /\ resumes' = t.resumes
                /\ IF t.committed
                     THEN WhReply(200, "received")
                     ELSE WhReply(500, "Failed to process review order transaction")
  /\ UNCHANGED << users, procVars, nDeliv, deleting, granted >>

\* Any other serviceType is logged and acknowledged.
Webhook_UnknownService ==
  /\ InFlight("checkout.session.completed")
  /\ Val(wh).event.userId # 0
  /\ Val(wh).event.serviceType \notin
       {"no_metadata", "subscription", "ppu_ats", "ppu_optimization", "review"}
  /\ WhReply(200, "received")
  /\ UNCHANGED << dbVars, procVars, nDeliv, deleting, granted >>

\* checkout.session.expired and payment_intent.payment_failed: when the
\* metadata names a resume, prisma.resume.update marks it cancelled.
CancelResume(paymentStatus) ==
  LET e == Val(wh).event IN
  IF e.resumeId = 0
    THEN /\ WhReply(200, "received")
         /\ UNCHANGED resumes
    ELSE \E ok \in BOOLEAN :
           IF ok /\ e.resumeId \in DOMAIN resumes
             THEN /\ resumes' = [ resumes EXCEPT ![e.resumeId] =
                       [ @ EXCEPT !.paymentStatus = Some(paymentStatus),
                                  !.status = "cancelled" ] ]
                  /\ WhReply(200, "received")
             ELSE /\ WhCatch("Webhook Error: storage")
                  /\ UNCHANGED resumes

Webhook_CheckoutExpired ==
  /\ InFlight("checkout.session.expired")
  /\ CancelResume("expired")
  /\ UNCHANGED << users, reviewOrders, procVars, nDeliv, deleting, granted >>

Webhook_PaymentFailed ==
  /\ InFlight("payment_intent.payment_failed")
  /\ CancelResume("failed")
  /\ UNCHANGED << users, reviewOrders, procVars, nDeliv, deleting, granted >>

\* prisma.user.findFirst({ where: { stripeSubscriptionId } })
FindBySubscription(sub) ==
  { u \in DOMAIN users : users[u].stripeSubscriptionId = Some(sub) }

\* customer.subscription.deleted: the lookup.  When a user is found the
\* handler goes on to the update, which is a second storage operation.
Webhook_SubscriptionDeleted ==
  /\ InFlight("customer.subscription.deleted")
  /\ IsNull(deleting)
  /\ \E ok \in BOOLEAN :
       LET found == FindBySubscription(Val(wh).event.subscription) IN
       IF ~ok
         THEN /\ WhCatch("Webhook Error: storage")
              /\ UNCHANGED deleting
         ELSE IF found = {}
           THEN /\ WhReply(200, "received")
                /\ UNCHANGED deleting
           ELSE /\ deleting' = Some(CHOOSE u \in found : TRUE)
                /\ wh' = Null
                /\ UNCHANGED whResp
  /\ UNCHANGED << dbVars, procVars, nDeliv, granted >>

Webhook_SubscriptionDeletedUpdate_Free ==
  /\ ~IsNull(deleting)
  /\ \E ok \in BOOLEAN :
       IF ok
         THEN /\ users' = [ users EXCEPT
                   ![Val(deleting)].subscriptionStatus = "free" ]
              /\ whResp' = WhResponse(200, "received")
         ELSE /\ whResp' = WhResponse(400, "Webhook Error: storage")
              /\ UNCHANGED users
  /\ deleting' = Null
  /\ UNCHANGED << resumes, reviewOrders, procVars, wh, nDeliv, granted >>

\* customer.subscription.deleted: prisma.user.update({ subscriptionStatus:
\* 'inactive' }) on the user found, then the response.
Webhook_SubscriptionDeletedUpdate ==
  /\ ~IsNull(deleting)
  /\ \E ok \in BOOLEAN :
       IF ok
         THEN /\ users' = [ users EXCEPT
                   ![Val(deleting)].subscriptionStatus = "inactive" ]
              /\ whResp' = WhResponse(200, "received")
         ELSE /\ whResp' = WhResponse(400, "Webhook Error: storage")
              /\ UNCHANGED users
  /\ deleting' = Null
  /\ UNCHANGED << resumes, reviewOrders, procVars, wh, nDeliv, granted >>

\* default: the event type is logged and acknowledged.
Webhook_Unhandled ==
  /\ Verified
  /\ Val(wh).event.type \notin
       {"checkout.session.completed", "checkout.session.expired",
        "payment_intent.payment_failed", "customer.subscription.deleted"}
  /\ WhReply(200, "received")
  /\ UNCHANGED << dbVars, procVars, nDeliv, deleting, granted >>

(***************************************************************************)
(* POST / (authenticated upload) and the free ATS check.                   *)
(***************************************************************************)
\* The row prisma.resume.create inserts: the columns the handler gives and
\* the defaults of the schema.
NewResume(owner, status) ==
  [ userId |-> owner, fileUrl |-> Some("blob_url"), jobDescription |-> Null,
    status |-> status, atsScore |-> Null, optimizationScore |-> Null,
    keywordAnalysis |-> Null, feedback |-> Null, completedAt |-> Null,
    ppuOptimizationClicksRemaining |-> Null, paymentStatus |-> Null ]

\* data: { atsScore: analysisResult.score, feedback: analysisResult.feedback,
\* status: 'basic_ats_complete' }
BasicAtsComplete(row) ==
  [ row EXCEPT !.atsScore = Some(70), !.feedback = Some("basic_feedback"),
               !.status = "basic_ats_complete" ]

\* An upload reaches the server with its file (and, for the free check, an
\* email) and starts the upload to the blob store.
UploadArrive(p, kind, owner, first) ==
  /\ Free(p)
  /\ \A q \in Procs : q < p => ~Free(q)
  /\ nReq < quota
  /\ req' = [ req EXCEPT ![p] =
                [ kind |-> kind, userId |-> owner, resumeId |-> 0 ] ]
  /\ credBefore' = [ credBefore EXCEPT ![p] = Counters(owner) ]
  /\ nReq' = nReq + 1
  /\ pc' = [ pc EXCEPT ![p] = first ]
  /\ user' = [ user EXCEPT ![p] = Null ]
  /\ resume' = [ resume EXCEPT ![p] = Null ]
  /\ usedPpuCredit' = [ usedPpuCredit EXCEPT ![p] = FALSE ]
  /\ analysisResult' = [ analysisResult EXCEPT ![p] = NoResult ]
  /\ resp' = [ resp EXCEPT ![p] = Null ]
  /\ rollback' = [ rollback EXCEPT ![p] = "none" ]
  /\ alone' = [ alone EXCEPT ![p] = TRUE ]
  /\ UNCHANGED << dbVars, whVars, quota, ledger >>

\* A step of an upload that writes no row.
UploadStep(p, next) ==
  /\ pc' = [ pc EXCEPT ![p] = next ]
  /\ UNCHANGED << dbVars, whVars, req, user, resume, usedPpuCredit,
                  analysisResult, resp, rollback, credBefore, alone, nReq,
                  quota, ledger >>

\* A step of an upload that ends the request without writing a row.
UploadReply(p, code, tag) ==
  /\ Reply(p, code, tag)
  /\ UNCHANGED << dbVars, whVars, req, usedPpuCredit, rollback, credBefore,
                  alone, nReq, quota, ledger >>

\* resumeRecord = await prisma.resume.create({ data: { ..., status } }): the
\* new row gets the next id, which the handler keeps.
CreateResume(p, owner, status, next) ==
  /\ resumes' = Append(resumes, NewResume(owner, status))
  /\ req' = [ req EXCEPT ![p].resumeId = Len(resumes) + 1 ]
  /\ pc' = [ pc EXCEPT ![p] = next ]
  /\ UNCHANGED << users, reviewOrders, whVars, user, resume, usedPpuCredit,
                  analysisResult, resp, rollback, credBefore, alone, nReq,
                  quota, ledger >>

\* await prisma.resume.update({ where: { id: resumeRecord.id }, data }) and
\* the response that follows it.
UpdateResumeAndReply(p, row, code, tag) ==
  /\ resumes' = [ resumes EXCEPT ![req[p].resumeId] = row ]
  /\ Reply(p, code, tag)
  /\ UNCHANGED << users, reviewOrders, whVars, req, usedPpuCredit, rollback,
                  credBefore, alone, nReq, quota, ledger >>

Upload_Start(p) == UploadArrive(p, "upload", 1, "up_put")

\* if (!req.file) return res.status(400)
Upload_NoFile(p) ==
  /\ Free(p)
  /\ \A q \in Procs : q < p => ~Free(q)
  /\ nReq < quota
  /\ req' = [ req EXCEPT ![p] =
                [ kind |-> "upload", userId |-> 1, resumeId |-> 0 ] ]
  /\ credBefore' = [ credBefore EXCEPT ![p] = Counters(1) ]
  /\ nReq' = nReq + 1
  /\ Reply(p, 400, "no_file")
  /\ usedPpuCredit' = [ usedPpuCredit EXCEPT ![p] = FALSE ]
  /\ rollback' = [ rollback EXCEPT ![p] = "none" ]
  /\ alone' = [ alone EXCEPT ![p] = TRUE ]
  /\ UNCHANGED << dbVars, whVars, quota, ledger >>

\* const blob = await put(...); its own catch answers 500.
Upload_Put(p) ==
  /\ pc[p] = "up_put"
  /\ \/ UploadStep(p, "up_create")
     \/ UploadReply(p, 500, "blob_failed")

\* resumeRecord = await prisma.resume.create({ data: { userId, fileUrl,
\* status: 'uploaded', ... } }); a rejection goes to the outer catch.
Upload_Create(p) ==
  /\ pc[p] = "up_create"
  /\ \/ CreateResume(p, req[p].userId, "uploaded", "up_extract")
     \/ UploadReply(p, 500, "failed")

\* const resumeText = await extractTextFromFile(...);
\* analysisResult = performBasicAtsCheck(resumeText)
Upload_Extract(p) ==
  /\ pc[p] = "up_extract"
  /\ \/ UploadStep(p, "up_persist")
     \/ UploadStep(p, "up_markFailed")

\* finalResumeData = await prisma.resume.update({ data: { atsScore,
\* feedback, status: 'basic_ats_complete' } }); res.status(201)
Upload_Persist(p) ==
  /\ pc[p] = "up_persist"
  /\ \/ UpdateResumeAndReply(p, BasicAtsComplete(resumes[req[p].resumeId]),
                             201, "ok")
     \/ UploadStep(p, "up_markFailed")

\* catch (analysisError): await prisma.resume.update({ data: { status:
\* 'basic_ats_failed' } }); res.status(201) with analysisError; a rejection
\* of this update goes to the outer catch.
Upload_MarkFailed(p) ==
  /\ pc[p] = "up_markFailed"
  /\ \/ UpdateResumeAndReply(p, [ resumes[req[p].resumeId] EXCEPT
                                    !.status = "basic_ats_failed" ],
                             201, "analysis_error")
     \/ UploadReply(p, 500, "failed")

FreeCheck_Start(p) == UploadArrive(p, "free_check", NoUser, "fc_put")

\* if (!req.file) ... if (!email) ...: 400
FreeCheck_BadRequest(p) ==
  /\ Free(p)
  /\ \A q \in Procs : q < p => ~Free(q)
  /\ nReq < quota
  /\ req' = [ req EXCEPT ![p] =
                [ kind |-> "free_check", userId |-> NoUser, resumeId |-> 0 ] ]
  /\ credBefore' = [ credBefore EXCEPT ![p] = Counters(NoUser) ]
  /\ nReq' = nReq + 1
  /\ Reply(p, 400, "no_file_or_email")
  /\ usedPpuCredit' = [ usedPpuCredit EXCEPT ![p] = FALSE ]
  /\ rollback' = [ rollback EXCEPT ![p] = "none" ]
  /\ alone' = [ alone EXCEPT ![p] = TRUE ]
  /\ UNCHANGED << dbVars, whVars, quota, ledger >>

\* const blob = await put(...); its own catch answers 500.
FreeCheck_Put(p) ==
  /\ pc[p] = "fc_put"
  /\ \/ UploadStep(p, "fc_create")
     \/ UploadReply(p, 500, "blob_failed")

\* resumeRecord = await prisma.resume.create({ data: { fileUrl, email,
\* status: 'basic_ats_pending', ... } }); a rejection goes to the outer
\* catch, which has no row to update.
FreeCheck_Create(p) ==
  /\ pc[p] = "fc_create"
  /\ \/ CreateResume(p, NoUser, "basic_ats_pending", "fc_extract")
     \/ UploadReply(p, 500, "failed")

\* const resumeText = await extractTextFromFile(...);
\* analysisResult = performBasicAtsCheck(resumeText)
FreeCheck_Extract(p) ==
  /\ pc[p] = "fc_extract"
  /\ \/ UploadStep(p, "fc_persist")
     \/ UploadStep(p, "fc_markFailed")

\* const updatedResume = await prisma.resume.update({ data: { atsScore,
\* feedback, status: 'basic_ats_complete' } }); res.json(...)
FreeCheck_Persist(p) ==
  /\ pc[p] = "fc_persist"
  /\ \/ UpdateResumeAndReply(p, BasicAtsComplete(resumes[req[p].resumeId]),
                             200, "ok")
     \/ UploadStep(p, "fc_markFailed")

\* catch (analysisError): await prisma.resume.update({ data: { status:
\* 'basic_ats_failed' } }); res.status(500); a rejection of this update goes
\* to the outer catch.
FreeCheck_MarkFailed(p) ==
  /\ pc[p] = "fc_markFailed"
  /\ \/ UpdateResumeAndReply(p, [ resumes[req[p].resumeId] EXCEPT
                                    !.status = "basic_ats_failed" ],
                             500, "analysis_failed")
     \/ UploadStep(p, "fc_markFailedAgain")

\* Outer catch with a created row and no response sent: the update to
\* 'basic_ats_failed' is tried once more, its failure is only logged; 500.
FreeCheck_MarkFailedAgain(p) ==
  /\ pc[p] = "fc_markFailedAgain"
  /\ \/ UpdateResumeAndReply(p, [ resumes[req[p].resumeId] EXCEPT
                                    !.status = "basic_ats_failed" ],
                             500, "failed")
     \/ UploadReply(p, 500, "failed")

(***************************************************************************)
(* Admin routes.                                                           *)
(***************************************************************************)
\* An admin request reaches the server and runs up to its first storage
\* operation; rid is the resume the request goes on to write, if any.
AdminArrive(p, kind, rid) ==
  /\ Free(p)
  /\ \A q \in Procs : q < p => ~Free(q)
  /\ nReq < quota
  /\ req' = [ req EXCEPT ![p] =
                [ kind |-> kind, userId |-> NoUser, resumeId |-> rid ] ]
  /\ credBefore' = [ credBefore EXCEPT ![p] = Counters(NoUser) ]
  /\ nReq' = nReq + 1
  /\ usedPpuCredit' = [ usedPpuCredit EXCEPT ![p] = FALSE ]
  /\ rollback' = [ rollback EXCEPT ![p] = "none" ]
  /\ alone' = [ alone EXCEPT ![p] = TRUE ]

\* const validStatuses = [...]
ValidStatuses ==
  {"requested", "assigned", "in_progress", "completed", "cancelled"}

\* The status of the request body: absent (""), valid, or anything else.
BodyStatuses == ValidStatuses \cup {"", "archived"}

\* The ids an admin request may name: the first row of ReviewOrder and an id
\* without a row.
OrderIds == {1, 2}

\* updateData of PUT /reviews/:reviewOrderId applied to a row.
UpdateOrder(order, status, withFeedback) ==
  [ order EXCEPT
      !.status = IF status = "" THEN @ ELSE status,
      !.completedDate = IF status = "completed" THEN Some("admin") ELSE @,
      !.reviewerFeedback = IF withFeedback THEN Some("review_feedback")
                                           ELSE @ ]

\* PUT /reviews/:reviewOrderId up to await prisma.reviewOrder.update(...):
\* the validation of the body, then the update of the row (P2025 when the
\* row does not exist), then the response unless status is 'completed'.
AdminReview_UpdateOrder(p) ==
  \E id \in OrderIds, status \in BodyStatuses, withFeedback \in BOOLEAN,
     ok \in BOOLEAN :
    IF status \notin ValidStatuses \cup {""}
      THEN /\ AdminArrive(p, "admin_review", 0)
           /\ Reply(p, 400, "invalid_status")
           /\ UNCHANGED << dbVars, whVars, quota, ledger >>
      ELSE IF status = "" /\ ~withFeedback
        THEN /\ AdminArrive(p, "admin_review", 0)
             /\ Reply(p, 400, "no_update_data")
             /\ UNCHANGED << dbVars, whVars, quota, ledger >>
        ELSE IF id \notin DOMAIN reviewOrders
          THEN /\ AdminArrive(p, "admin_review", 0)
               /\ Reply(p, 404, "review_order_not_found")
               /\ UNCHANGED << dbVars, whVars, quota, ledger >>
          ELSE IF ~ok
            THEN /\ AdminArrive(p, "admin_review", 0)
                 /\ Reply(p, 500, "failed")
                 /\ UNCHANGED << dbVars, whVars, quota, ledger >>
            ELSE /\ AdminArrive(p, "admin_review", reviewOrders[id].resumeId)
                 /\ reviewOrders' =
                      [ reviewOrders EXCEPT
                          ![id] = UpdateOrder(@, status, withFeedback) ]
                 /\ IF status = "completed"
                      THEN /\ pc' = [ pc EXCEPT ![p] = "ar_updateResume" ]
                           /\ user' = [ user EXCEPT ![p] = Null ]
                           /\ resume' = [ resume EXCEPT ![p] = Null ]
                           /\ analysisResult' =
                                [ analysisResult EXCEPT ![p] = NoResult ]
                           /\ resp' = [ resp EXCEPT ![p] = Null ]
                      ELSE Reply(p, 200, "ok")
                 /\ UNCHANGED << users, resumes, whVars, quota, ledger >>

\* if (status === 'completed') await prisma.resume.update({ data: { status:
\* 'review_complete' } }).catch(log); res.json(updatedReviewOrder)
AdminReview_UpdateResume(p) ==
  /\ pc[p] = "ar_updateResume"
  /\ \E ok \in BOOLEAN :
       IF ok /\ req[p].resumeId \in DOMAIN resumes
         THEN resumes' = SetStatus(resumes, req[p].resumeId, "review_complete")
         ELSE UNCHANGED resumes
  /\ Reply(p, 200, "ok")
  /\ UNCHANGED << users, reviewOrders, whVars, req, usedPpuCredit, rollback,
                  credBefore, alone, nReq, quota, ledger >>

\* The status an admin sends for a submission: the two values the admin
\* statistics count.
SubmissionStatuses == {"pending", "completed"}

\* PUT /submissions/:id: prisma.resume.update({ data: { status, feedback,
\* completedAt: status === 'completed' ? new Date() : null } }); an absent
\* feedback leaves the column as it is.
Admin_UpdateSubmission(p) ==
  \E rid \in {1, NoResume}, status \in SubmissionStatuses,
     withFeedback \in BOOLEAN, ok \in BOOLEAN :
    /\ AdminArrive(p, "admin_submission", rid)
    /\ IF ok /\ rid \in DOMAIN resumes
         THEN /\ resumes' =
                   [ resumes EXCEPT ![rid] =
                       [ @ EXCEPT
                           !.status = status,
                           !.feedback = IF withFeedback
                                          THEN Some("admin_feedback") ELSE @,
                           !.completedAt = IF status = "completed"
                                             THEN Some("admin") ELSE Null ] ]
              /\ Reply(p, 200, "ok")
         ELSE /\ Reply(p, 500, "failed")
              /\ UNCHANGED resumes
    /\ UNCHANGED << users, reviewOrders, whVars, quota, ledger >>

(***************************************************************************)
(* The system.                                                             *)
(***************************************************************************)
\* The resumes after their upload: resume 1 belongs to user 1 and has a
\* stored file and a job description, or lacks the file, or failed its
\* basic check and has no job description yet; resume 2 is an anonymous free
\* check.
InitialResumes ==
  { [ r \in Resumes |->
        IF r = 1 THEN own
                 ELSE UploadedResume(NoUser, Some("blob_url"), Null) ] :
      own \in { UploadedResume(1, Some("blob_url"), Some("job text")),
                UploadedResume(1, Null, Some("job text")),
                FailedUpload(1, Some("blob_url"), Null) } }

\* A resume after a job-optimization that succeeded, with the click budget
\* as later analyze-changes calls left it (null for a premium user's run).
OptimizedResume(owner, clicks) ==
  [ UploadedResume(owner, Some("blob_url"), Some("job text")) EXCEPT
      !.status = "job_opt_complete",
      !.optimizationScore = Some(45),
      !.keywordAnalysis = Some("keywords"),
      !.feedback = Some("suggestions"),
      !.completedAt = Some("job_opt"),
      !.ppuOptimizationClicksRemaining = clicks ]

Budgets == { Null } \cup { Some(k) : k \in 0..PPU_CLICK_LIMIT }

\* Resume 1 optimised with any state of its click budget, or uploaded
\* without a stored file, or without a job description.
OptimizedResumes ==
  { [ r \in Resumes |->
        IF r = 1 THEN own
                 ELSE UploadedResume(NoUser, Some("blob_url"), Null) ] :
      own \in { OptimizedResume(1, b) : b \in Budgets } \cup
              { UploadedResume(1, Null, Some("job text")),
                FailedUpload(1, Some("blob_url"), Null) } }

\* Resume 1 right after the job-optimization that consumed a purchase.
FreshBudget ==
  [ r \in Resumes |->
      IF r = 1 THEN OptimizedResume(1, Some(PPU_CLICK_LIMIT))
               ELSE UploadedResume(NoUser, Some("blob_url"), Null) ]

\* The users after registration, subscription events and credit purchases:
\* a free user without credits and with one credit of each kind, a premium
\* user without credits, and a user whose subscription ended holding one
\* credit of each kind.
InitialUsers ==
  { [ u \in Users |->
        [ NewUser EXCEPT !.subscriptionStatus = a[1],
                         !.stripeSubscriptionId =
                            IF a[1] = "free" THEN Null ELSE Some("sub_A"),
                         !.ppuAtsCredits = a[2],
                         !.ppuOptimizationCredits = a[2] ] ] :
      a \in { <<"free", 0>>, <<"free", 1>>, <<"premium", 0>>,
              <<"inactive", 1>> } }

\* Nothing was used or lost yet.
NewLedger ==
  [ u \in DOMAIN users |->
      [ start |-> Counters(u), used |-> [ ats |-> 0, opt |-> 0 ],
        lost |-> [ ats |-> 0, opt |-> 0 ],
        calls |-> [ admitted |-> 0 ] ] ]

\* No request is being served and no delivery was received.
Idle ==
  /\ ledger = NewLedger
  /\ pc = [ p \in Procs |-> "idle" ]
  /\ req = [ p \in Procs |-> NoRequest ]
  /\ user = [ p \in Procs |-> Null ]
  /\ resume = [ p \in Procs |-> Null ]
  /\ usedPpuCredit = [ p \in Procs |-> FALSE ]
  /\ analysisResult = [ p \in Procs |-> NoResult ]
  /\ resp = [ p \in Procs |-> Null ]
  /\ rollback = [ p \in Procs |-> "none" ]
  /\ credBefore = [ p \in Procs |-> [ ats |-> 0, opt |-> 0 ] ]
  /\ alone = [ p \in Procs |-> TRUE ]
  /\ nReq = 0
  /\ wh = Null
  /\ whResp = NoWhResponse
  /\ nDeliv = 0
  /\ deleting = Null
  /\ granted = [ e \in GrantEvents |-> 0 ]

Quiet ==
  /\ reviewOrders = << >>
  /\ Idle

\* The server starts on a database with one registered user (the defaults
\* of the schema) and the uploaded resumes.
Init ==
  /\ users = [ u \in Users |-> NewUser ]
  /\ resumes \in InitialResumes
  /\ quota = MaxRequests
  /\ Quiet

\* The server starts on a database whose user has a subscription status and
\* credits from earlier payments.
InitAnalysis ==
  /\ users \in InitialUsers
  /\ resumes \in InitialResumes
  /\ quota = MaxRequests
  /\ Quiet

\* The analysis stages on a resume with a job description, with or without
\* its stored file, for a user with one credit of each kind or a premium
\* user.
InitStages ==
  /\ users \in { u \in InitialUsers :
                   \/ u[1].subscriptionStatus = "premium"
                   \/ u[1].subscriptionStatus = "free" /\ u[1].ppuAtsCredits = 1 }
  /\ resumes \in { r \in InitialResumes : ~IsNull(r[1].jobDescription) }
  /\ quota = MaxRequests
  /\ Quiet

\* A user entitled to every operation, by a credit of each kind or by a
\* subscription, with an owned resume next to the anonymous resume 2.
InitAccess ==
  /\ users \in { u \in InitialUsers :
                   \/ u[1].subscriptionStatus = "premium"
                   \/ u[1].subscriptionStatus = "free" /\ u[1].ppuAtsCredits = 1 }
  /\ resumes \in InitialResumes
  /\ quota = MaxRequests
  /\ Quiet

\* The server after the webhook handled the payment of a review of resume
\* 1: the order is requested and the resume is pending_review; the user
\* holds no credit or one credit of each kind, or is subscribed, and the
\* resume has its stored file or lacks it.
InitReview ==
  /\ users \in InitialUsers
  /\ resumes \in
       { [ r \in Resumes |->
             IF r = 1
               THEN [ UploadedResume(1, f, Some("job text")) EXCEPT
                        !.status = "pending_review" ]
               ELSE UploadedResume(NoUser, Some("blob_url"), Null) ] :
           f \in { Some("blob_url"), Null } }
  /\ reviewOrders = << NewReviewOrder(1, 1) >>
  /\ quota = MaxRequests
  /\ Idle

\* The server with its registered user and no resume yet.
InitUpload ==
  /\ users = [ u \in Users |-> NewUser ]
  /\ resumes = << >>
  /\ quota = MaxRequests
  /\ Quiet

\* The server after one purchase of each kind of credit by a user who is
\* free or subscribed, with a resume that has a job description and has or
\* lacks its stored file.
InitLedger ==
  /\ users \in { [ u \in Users |->
                    [ NewUser EXCEPT
                        !.subscriptionStatus = s,
                        !.stripeSubscriptionId =
                           IF s = "free" THEN Null ELSE Some("sub_A"),
                        !.ppuAtsCredits = GrantAmount,
                        !.ppuOptimizationCredits = GrantAmount ] ] :
                  s \in {"free", "premium"} }
  /\ resumes \in { r \in InitialResumes : ~IsNull(r[1].jobDescription) }
  /\ quota = MaxRequests
  /\ Quiet

\* The server after optimisations and click use.
InitOptimization ==
  /\ users \in InitialUsers
  /\ resumes \in OptimizedResumes
  /\ quota = MaxRequests
  /\ Quiet

\* The server right after an optimisation, about to serve a run of
\* analyze-changes calls.
InitClicks ==
  /\ users \in InitialUsers
  /\ resumes = FreshBudget
  /\ quota = MaxCalls
  /\ Quiet

DetailedAts(p) ==
  \/ DetailedAts_Start(p)
  \/ DetailedAts_FindUser(p)
  \/ DetailedAts_FindResume(p)
  \/ DetailedAts_Consume(p)
  \/ DetailedAts_SetPending(p)
  \/ DetailedAts_MissingFile(p)
  \/ DetailedAts_Extract(p)
  \/ DetailedAts_Analyze(p)
  \/ DetailedAts_Persist(p)
  \/ DetailedAts_Rollback(p)
  \/ DetailedAts_MarkFailed(p)

JobOpt(p) ==
  \/ JobOpt_Start(p)
  \/ JobOpt_FindUser(p)
  \/ JobOpt_FindResume(p)
  \/ JobOpt_Consume(p)
  \/ JobOpt_SetPending(p)
  \/ JobOpt_MissingFile(p)
  \/ JobOpt_Extract(p)
  \/ JobOpt_Analyze(p)
  \/ JobOpt_Persist(p)
  \/ JobOpt_Rollback(p)
  \/ JobOpt_MarkFailed(p)

AnalyzeChanges(p) ==
  \/ AnalyzeChanges_Start(p)
  \/ AnalyzeChanges_BadBody(p)
  \/ AnalyzeChanges_FindUser(p)
  \/ AnalyzeChanges_FindResume(p)
  \/ AnalyzeChanges_Consume(p)
  \/ AnalyzeChanges_Analyze(p)

JobDescription(p) ==
  \/ JobDescription_Start(p)
  \/ JobDescription_BadBody(p)
  \/ JobDescription_FindResume(p)
  \/ JobDescription_Update(p)

Upload(p) ==
  \/ Upload_Start(p)
  \/ Upload_NoFile(p)
  \/ Upload_Put(p)
  \/ Upload_Create(p)
  \/ Upload_Extract(p)
  \/ Upload_Persist(p)
  \/ Upload_MarkFailed(p)

FreeCheck(p) ==
  \/ FreeCheck_Start(p)
  \/ FreeCheck_BadRequest(p)
  \/ FreeCheck_Put(p)
  \/ FreeCheck_Create(p)
  \/ FreeCheck_Extract(p)
  \/ FreeCheck_Persist(p)
  \/ FreeCheck_MarkFailed(p)
  \/ FreeCheck_MarkFailedAgain(p)

AdminReview(p) ==
  \/ AdminReview_UpdateOrder(p)
  \/ AdminReview_UpdateResume(p)

Webhook ==
  \/ Webhook_Receive
  \/ Webhook_BadSignature
  \/ Webhook_CompletedRejected
  \/ Webhook_Subscription
  \/ Webhook_PpuAts
  \/ Webhook_PpuOptimization
  \/ Webhook_Review
  \/ Webhook_UnknownService
  \/ Webhook_CheckoutExpired
  \/ Webhook_PaymentFailed
  \/ Webhook_SubscriptionDeleted
  \/ Webhook_SubscriptionDeletedUpdate
  \/ Webhook_Unhandled

Next ==
  \/ \E p \in Procs : DetailedAts(p)
  \/ \E p \in Procs : JobOpt(p)
  \/ \E p \in Procs : AnalyzeChanges(p)
  \/ \E p \in Procs : JobDescription(p)
  \/ \E p \in Procs : Upload(p)
  \/ \E p \in Procs : FreeCheck(p)
  \/ \E p \in Procs : AdminReview(p)
  \/ \E p \in Procs : Admin_UpdateSubmission(p)
  \/ Webhook

Spec == Init /\ [][Next]_vars

\* The analysis requests alone, on a database prepared by earlier payments.
NextAnalysis ==
  \/ \E p \in Procs : DetailedAts(p)
  \/ \E p \in Procs : JobOpt(p)

SpecAnalysis == InitAnalysis /\ [][NextAnalysis]_vars

SpecStages == InitStages /\ [][NextAnalysis]_vars

\* Job optimisations and re-analyses of edited text, served concurrently.
NextOptimization ==
  \/ \E p \in Procs : JobOpt(p)
  \/ \E p \in Procs : AnalyzeChanges(p)

SpecOptimization == InitOptimization /\ [][NextOptimization]_vars

\* The server before any optimisation of the resume.
InitBudget ==
  /\ users \in InitialUsers
  /\ resumes \in InitialResumes
  /\ quota = MaxRequests
  /\ Quiet

SpecBudget == InitBudget /\ [][NextOptimization]_vars

\* The four operations on one resume, served concurrently.
NextAccess ==
  \/ \E p \in Procs : DetailedAts(p)
  \/ \E p \in Procs : JobOpt(p)
  \/ \E p \in Procs : AnalyzeChanges(p)
  \/ \E p \in Procs : JobDescription(p)

SpecAccess == InitAccess /\ [][NextAccess]_vars

\* The handling of a paid review by the admin, and the optimisation of the
\* reviewed resume.
NextReview ==
  \/ \E p \in Procs : AdminReview(p)
  \/ \E p \in Procs : Admin_UpdateSubmission(p)
  \/ \E p \in Procs : JobOpt(p)

SpecReview == InitReview /\ [][NextReview]_vars

\* Uploads and free checks, served concurrently.
NextUpload ==
  \/ \E p \in Procs : Upload(p)
  \/ \E p \in Procs : FreeCheck(p)

SpecUpload == InitUpload /\ [][NextUpload]_vars

\* Credit purchases delivered while analyses are served one after the
\* other.
NextLedger ==
  \/ Webhook_ReceivePurchase
  \/ Webhook_PpuAts
  \/ Webhook_PpuOptimization
  \/ DetailedAts(1)
  \/ JobOpt(1)

SpecLedger == InitLedger /\ [][NextLedger]_vars

\* analyze-changes calls served one after the other.
NextClicks == AnalyzeChanges(1)

SpecClicks == InitClicks /\ [][NextClicks]_vars

\* The webhook alone.
NextWebhook == Webhook

SpecWebhook == Init /\ [][NextWebhook]_vars

(***************************************************************************)
(* Properties.                                                             *)
(***************************************************************************)
\* The step is a step of request p.
StepOf(p) == pc'[p] # pc[p]

Answered(p, code) == pc[p] = "done" /\ ~IsNull(resp[p]) /\ Val(resp[p]).code = code

\* The counter a request of this kind consumes.
CounterOf(kind, u) ==
  IF kind = "detailed_ats" THEN u.ppuAtsCredits ELSE u.ppuOptimizationCredits

\* C1: in every reachable state both credit counters of every user are >= 0.
C1_CreditsNeverNegative ==
  \A u \in DOMAIN users :
    users[u].ppuAtsCredits >= 0 /\ users[u].ppuOptimizationCredits >= 0

\* C2: two requests of one kind by one non-premium user that both arrived
\* while the counter was 1 (no credit granted in between) never both hold a
\* consumed credit that was not rolled back.
C2_OnlyOneConsumes ==
  \A p, q \in Procs :
    ( /\ p # q
      /\ req[p].kind = req[q].kind
      /\ req[p].kind \in {"detailed_ats", "job_opt"}
      /\ req[p].userId = req[q].userId
      /\ CounterOf(req[p].kind,
                   [ ppuAtsCredits |-> credBefore[p].ats,
                     ppuOptimizationCredits |-> credBefore[p].opt ]) = 1
      /\ credBefore[q] = credBefore[p]
      /\ \A e \in GrantEvents : granted[e] = 0 )
    => ~( /\ usedPpuCredit[p] /\ rollback[p] = "none"
          /\ usedPpuCredit[q] /\ rollback[q] = "none" )

\* C3: however often a checkout-completed event of a credit purchase is
\* delivered, it increases the counter by 1 in total.
C3_GrantOncePerEvent ==
  \A e \in GrantEvents : granted[e] <= GrantAmount

\* A request that failed after its credit was consumed, while nothing else
\* changed the user's counters.
FailedAfterConsume(p) ==
  /\ Answered(p, 500)
  /\ usedPpuCredit[p]
  /\ alone[p]

\* C4 as stated: after a request that failed once its credit was consumed,
\* and with no other request touching the counters, the counters equal their
\* values from before the request.
C4_RollbackRestores_AsStated ==
  \A p \in Procs :
    FailedAfterConsume(p) => Counters(req[p].userId) = credBefore[p]

\* C4 amended: the same, provided the rollback write itself did not fail.
C4_RollbackRestores ==
  \A p \in Procs :
    FailedAfterConsume(p) /\ rollback[p] # "failed"
      => Counters(req[p].userId) = credBefore[p]

C4_Witness ==
  \E p \in Procs :
    /\ FailedAfterConsume(p)
    /\ rollback[p] = "done"
    /\ credBefore[p] = [ ats |-> 1, opt |-> 1 ]
    /\ Counters(req[p].userId) = credBefore[p]

\* The entitlement of the user as the request read it.
Entitled(p) ==
  \/ Val(user[p]).subscriptionStatus = "premium"
  \/ CounterOf(req[p].kind, Val(user[p])) > 0

\* The step evaluates the entitlement gate of request p: the resume was
\* read and the checks before the gate passed.
AtGate(p) ==
  /\ pc[p] \in {"da_findResume", "jo_findResume"}
  /\ StepOf(p)
  /\ \/ pc'[p] \in {"da_consume", "da_setPending", "jo_consume", "jo_setPending"}
     \/ resp'[p] = Response(403, "no_credit")

\* C5: a request passes the entitlement gate iff the user is premium or the
\* relevant counter is > 0; a rejected request is answered 403, and no step
\* of a request up to and including the gate writes to the storage (so the
\* counters, the resume's status, scores and click budget are unchanged).
C5_EntitlementGate ==
  [][ \A p \in Procs :
        /\ AtGate(p) => /\ (pc'[p] # "done") <=> Entitled(p)
                        /\ pc'[p] = "done" => Val(resp'[p]).code = 403
        /\ ( /\ StepOf(p)
             /\ pc[p] \in {"da_findUser", "da_findResume",
                           "jo_findUser", "jo_findResume"} )
           => UNCHANGED << users, resumes, reviewOrders >> ]_vars

C5_Witness ==
  \E p \in Procs :
    /\ pc[p] = "done"
    /\ resp[p] = Response(403, "no_credit")
    /\ users[req[p].userId].subscriptionStatus # "premium"
    /\ CounterOf(req[p].kind, users[req[p].userId]) = 0
    /\ resumes[req[p].resumeId].status = "basic_ats_complete"

\* The request serves a user it found premium.
ForPremium(p) ==
  /\ ~IsNull(user[p])
  /\ Val(user[p]).subscriptionStatus = "premium"

\* C6: no step of a request that found its user premium changes a credit
\* counter, and such a request is never answered 403 for lack of credits.
C6_PremiumBypass ==
  [][ \A p \in Procs :
        StepOf(p) /\ ForPremium(p)
          => /\ \A u \in DOMAIN users :
                  /\ users'[u].ppuAtsCredits = users[u].ppuAtsCredits
                  /\ users'[u].ppuOptimizationCredits =
                       users[u].ppuOptimizationCredits
             /\ resp'[p] # Response(403, "no_credit") ]_vars

C6_Witness ==
  \E p \in Procs :
    /\ Answered(p, 200)
    /\ ~usedPpuCredit[p]
    /\ users[req[p].userId].subscriptionStatus = "premium"
    /\ Counters(req[p].userId) = [ ats |-> 0, opt |-> 0 ]

\* The step handles a verified checkout-completed event of a review
\* purchase.
HandlesReview ==
  /\ Dispatch("review")
  /\ IsNull(wh')

\* C7: handling a review purchase either creates the review order and sets
\* the resume's status to pending_review, or changes neither table.
C7_ReviewAtomic ==
  [][ HandlesReview =>
        LET e == Val(wh).event IN
        \/ /\ whResp'.code = 200
           /\ reviewOrders' = Append(reviewOrders,
                                     NewReviewOrder(e.userId, e.resumeId))
           /\ resumes' = SetStatus(resumes, e.resumeId, "pending_review")
        \/ /\ whResp'.code # 200
           /\ reviewOrders' = reviewOrders
           /\ resumes' = resumes ]_vars

C7_Witness ==
  /\ whResp = WhResponse(500, "Failed to process review order transaction")
  /\ reviewOrders = << >>
  /\ \A r \in DOMAIN resumes : resumes[r].status # "pending_review"

\* C8: a verified review purchase naming an existing user and resume, once
\* handled with success, has created one review order with status requested
\* and paymentStatus success for that user and resume and set the resume's
\* status to pending_review; however often it is delivered, the resume has
\* at most one review order.
C8_ReviewOrderCreated ==
  [][ ( /\ HandlesReview
        /\ Val(wh).event.userId \in DOMAIN users
        /\ Val(wh).event.resumeId \in DOMAIN resumes )
      => LET e == Val(wh).event
             mine == OrdersOf(reviewOrders', e.resumeId) IN
         /\ Cardinality(mine) <= 1
         /\ whResp'.code = 200 =>
              /\ OrdersOf(reviewOrders, e.resumeId) = {}
              /\ Cardinality(mine) = 1
              /\ \A i \in mine :
                   /\ reviewOrders'[i].userId = e.userId
                   /\ reviewOrders'[i].status = "requested"
                   /\ reviewOrders'[i].paymentStatus = "success"
              /\ resumes'[e.resumeId].status = "pending_review"
         /\ whResp'.code # 200 => OrdersOf(reviewOrders, e.resumeId) = mine ]_vars

C8_Witness ==
  /\ whResp = WhResponse(200, "received")
  /\ Len(reviewOrders) = 1
  /\ reviewOrders[1] = NewReviewOrder(1, 1)
  /\ resumes[1].status = "pending_review"

\* C9: a delivery whose signature does not verify is answered 400 and
\* changes no row of User, Resume or ReviewOrder.
C9_BadSignatureRejected ==
  [][ ( ~IsNull(wh) /\ ~Val(wh).sig /\ IsNull(wh') )
      => /\ whResp'.code = 400
         /\ UNCHANGED << users, resumes, reviewOrders >> ]_vars

C9_Witness ==
  /\ whResp = WhResponse(400, "Webhook Error: signature")
  /\ IsNull(wh)
  /\ nDeliv > 0

\* C10: when a storage write fails while a verified, recognised event is
\* processed, the response is 500.
C10_ProcessingFailureIs500 ==
  whResp.error \in { "Webhook Error: storage",
                     "Failed to process review order transaction" }
    => whResp.code = 500

(***************************************************************************)
(* Click budget.                                                           *)
(***************************************************************************)
ClicksOf(r) == resumes[r].ppuOptimizationClicksRemaining

\* The budget as the click gate counts it: null admits no call.
Budget(r) == IF IsNull(ClicksOf(r)) THEN 0 ELSE Val(ClicksOf(r))

\* Request p is a call of the given handler; at its first step the request
\* record is the one being written.
IsKind(p, kind) == req'[p].kind = kind

\* The step evaluates the click gate of analyze-changes request p for a user
\* it found non-premium: the resume is owned and has a job description.
AtClickGate(p) ==
  /\ pc[p] = "ac_findResume"
  /\ StepOf(p)
  /\ Val(user[p]).subscriptionStatus # "premium"
  /\ req[p].resumeId \in DOMAIN resumes
  /\ resumes[req[p].resumeId].userId = req[p].userId
  /\ ~IsNull(resumes[req[p].resumeId].jobDescription)

\* C11: calls served one after the other on a budget that starts at 5, for
\* a non-premium user: a call is admitted iff the budget is >= 1, the
\* decrement of an admitted call lowers the budget by exactly one (so the
\* budget runs 4, 3, 2, 1, 0) and an answered call reports the budget it
\* left; a call on an exhausted budget is answered 403 reporting
\* ppuClicksRemaining 0; the budget never leaves 0..5 and a rejection leaves
\* it unchanged.
C11_ClickDepletion ==
  [][ \A p \in Procs :
        /\ AtClickGate(p) =>
             LET k == Budget(req[p].resumeId) IN
               /\ resumes' = resumes
               /\ k >= 1 => pc'[p] = "ac_consume"
               /\ k <= 0 => resp'[p] = ClicksResponse(403, "no_clicks", Some(0))
        /\ (pc[p] = "ac_consume" /\ pc'[p] = "ac_analyze") =>
             LET k == Budget(req[p].resumeId) IN
               /\ k \in 1..PPU_CLICK_LIMIT
               /\ resumes'[req[p].resumeId].ppuOptimizationClicksRemaining
                    = Some(k - 1)
        /\ ( /\ pc[p] = "ac_analyze"
             /\ StepOf(p)
             /\ Val(user[p]).subscriptionStatus # "premium"
             /\ Val(resp'[p]).code = 200 ) =>
             /\ Val(resp'[p]).ppuClicksRemaining = ClicksOf(req[p].resumeId)
             /\ resumes' = resumes ]_vars

C11_Witness ==
  /\ users[1].subscriptionStatus # "premium"
  /\ nReq > PPU_CLICK_LIMIT
  /\ ClicksOf(1) = Some(0)
  /\ pc[1] = "done"
  /\ resp[1] = ClicksResponse(403, "no_clicks", Some(0))

\* C12: in every reachable state the click budget of every resume is null
\* or >= 0.
C12_ClicksNeverNegative ==
  \A r \in DOMAIN resumes : IsNull(ClicksOf(r)) \/ Val(ClicksOf(r)) >= 0

\* C13: the webhook step that grants a job-optimization credit sets the
\* click budget of a resume of the buyer to 5.
C13_GrantSetsClicks ==
  [][ ( /\ Dispatch("ppu_optimization")
        /\ users' # users )
      => \E r \in DOMAIN resumes :
           /\ resumes'[r].userId = Val(wh).event.userId
           /\ resumes'[r].ppuOptimizationClicksRemaining =
                Some(PPU_CLICK_LIMIT) ]_vars

\* C14: the step of a job-optimization request that consumes a credit sets
\* the click budget of its resume to exactly 5, whatever the budget was, and
\* lowers the optimization counter by one.
C14_BudgetReset ==
  [][ \A p \in Procs :
        (pc[p] = "jo_consume" /\ pc'[p] = "jo_setPending") =>
          /\ resumes'[req[p].resumeId].ppuOptimizationClicksRemaining
               = Some(PPU_CLICK_LIMIT)
          /\ users'[req[p].userId].ppuOptimizationCredits
               = users[req[p].userId].ppuOptimizationCredits - 1 ]_vars

\* A job-optimization consumed a credit on a resume whose budget a call of
\* analyze-changes, still in flight, had left below 5.
C14_Witness ==
  \E p, q \in Procs :
    /\ pc[p] = "jo_setPending"
    /\ usedPpuCredit[p]
    /\ ClicksOf(req[p].resumeId) = Some(PPU_CLICK_LIMIT)
    /\ pc[q] = "ac_analyze"
    /\ req[q].resumeId = req[p].resumeId
    /\ ~IsNull(Val(resume[q]).ppuOptimizationClicksRemaining)
    /\ Val(Val(resume[q]).ppuOptimizationClicksRemaining) < PPU_CLICK_LIMIT - 1

\* C15: no step of a job-optimization or analyze-changes request that found
\* its user premium changes the click budget of any resume, and such a
\* request is never answered 403 for exhausted clicks.
C15_PremiumExempt ==
  [][ \A p \in Procs :
        ( /\ StepOf(p)
          /\ ForPremium(p)
          /\ req[p].kind \in {"job_opt", "analyze_changes"} )
        => /\ \A r \in DOMAIN resumes :
                resumes'[r].ppuOptimizationClicksRemaining = ClicksOf(r)
           /\ pc'[p] = "done" => Val(resp'[p]).error # "no_clicks" ]_vars

\* A premium call of analyze-changes answered 200 on an exhausted budget.
C15_Witness ==
  \E p \in Procs :
    /\ Answered(p, 200)
    /\ req[p].kind = "analyze_changes"
    /\ users[req[p].userId].subscriptionStatus = "premium"
    /\ Val(resp[p]).ppuClicksRemaining = Null
    /\ ClicksOf(req[p].resumeId) = Some(0)

\* C16: every step of an analyze-changes request leaves the users, the
\* review orders and every column of every resume other than the click
\* budget unchanged.
C16_AnalyzeChangesFrame ==
  [][ \A p \in Procs :
        (StepOf(p) /\ IsKind(p, "analyze_changes")) =>
          /\ users' = users
          /\ reviewOrders' = reviewOrders
          /\ \A r \in DOMAIN resumes :
               [ resumes'[r] EXCEPT !.ppuOptimizationClicksRemaining =
                                       ClicksOf(r) ] = resumes[r] ]_vars

\* An analyze-changes call answered 200 after lowering the budget.
C16_Witness ==
  \E p \in Procs :
    /\ Answered(p, 200)
    /\ req[p].kind = "analyze_changes"
    /\ ~IsNull(Val(resp[p]).ppuClicksRemaining)
    /\ ClicksOf(req[p].resumeId) = Val(resp[p]).ppuClicksRemaining
    /\ resumes[req[p].resumeId].status = "job_opt_complete"
    /\ resumes[req[p].resumeId].optimizationScore = Some(45)

(***************************************************************************)
(* Lifecycle of the analysis stages.                                       *)
(***************************************************************************)
\* C17: no step of a job-optimization request, successful or failed,
\* changes the atsScore of any resume.
C17_JobOptKeepsAtsScore ==
  [][ \A p \in Procs :
        (StepOf(p) /\ IsKind(p, "job_opt")) =>
          \A r \in DOMAIN resumes :
            resumes'[r].atsScore = resumes[r].atsScore ]_vars

\* A resume went from basic_ats_complete to job_opt_complete with the score
\* of its basic check.
C17_Witness ==
  \E p \in Procs :
    /\ Answered(p, 200)
    /\ req[p].kind = "job_opt"
    /\ resumes[req[p].resumeId].status = "job_opt_complete"
    /\ resumes[req[p].resumeId].atsScore = Some(70)

\* The step evaluates the entitlement gate of request p on an owned resume
\* that meets the precondition of the stage.
AtStageGate(p) ==
  /\ pc[p] \in {"da_findResume", "jo_findResume"}
  /\ StepOf(p)
  /\ req[p].resumeId \in DOMAIN resumes
  /\ resumes[req[p].resumeId].userId = req[p].userId
  /\ \/ req[p].kind = "detailed_ats"
     \/ ~IsNull(resumes[req[p].resumeId].jobDescription)

CompleteOf(kind) ==
  IF kind = "detailed_ats" THEN "detailed_ats_complete" ELSE "job_opt_complete"

\* C18: whatever the status of the resume, a request on an owned resume is
\* admitted iff the user is entitled, an admitted request of a non-premium
\* user goes on to consume a credit, and the persist step of an admitted
\* request sets the status to the stage's _complete.
C18_NoStatusBlocks ==
  [][ \A p \in Procs :
        /\ AtStageGate(p) =>
             /\ (pc'[p] # "done") <=> Entitled(p)
             /\ (pc'[p] # "done" /\ ~ForPremium(p))
                  => pc'[p] \in {"da_consume", "jo_consume"}
        /\ ( /\ pc[p] \in {"da_persist", "jo_persist"}
             /\ pc'[p] = "done"
             /\ Val(resp'[p]).code = 200 )
           => resumes'[req[p].resumeId].status = CompleteOf(req[p].kind) ]_vars

\* The resume whose basic check had failed (the one uploaded without a job
\* description) was taken to detailed_ats_complete by a request that
\* consumed a credit.
C18_Witness ==
  \E p \in Procs :
    /\ Answered(p, 200)
    /\ req[p].kind = "detailed_ats"
    /\ usedPpuCredit[p]
    /\ IsNull(resumes[req[p].resumeId].jobDescription)
    /\ IsNull(resumes[req[p].resumeId].optimizationScore)
    /\ resumes[req[p].resumeId].status = "detailed_ats_complete"

\* C19: the step that ends a detailed-ats-report with 200 leaves the resume
\* in detailed_ats_complete with atsScore and feedback of the analysis
\* result and completedAt set; when the user is not premium a credit was
\* consumed, and if no other request touched the counters, ppuAtsCredits is
\* one below its value at the start of the request.
C19_DetailedAtsSuccess ==
  [][ \A p \in Procs :
        ( /\ pc[p] = "da_persist"
          /\ pc'[p] = "done"
          /\ Val(resp'[p]).code = 200 )
        => LET row == resumes'[req[p].resumeId] IN
             /\ row.status = "detailed_ats_complete"
             /\ row.atsScore = Some(analysisResult[p].atsScore)
             /\ row.feedback = Some(analysisResult[p].feedback)
             /\ ~IsNull(row.completedAt)
             /\ ~ForPremium(p) =>
                  /\ usedPpuCredit[p]
                  /\ alone[p] => users'[req[p].userId].ppuAtsCredits
                                   = credBefore[p].ats - 1 ]_vars

C19_Witness ==
  \E p \in Procs :
    /\ Answered(p, 200)
    /\ req[p].kind = "detailed_ats"
    /\ usedPpuCredit[p]
    /\ alone[p]
    /\ credBefore[p].ats = 1
    /\ users[req[p].userId].ppuAtsCredits = 0
    /\ resumes[req[p].resumeId].status = "detailed_ats_complete"
    /\ resumes[req[p].resumeId].completedAt = Some("detailed_ats")

\* C20: in every reachable state the atsScore of every resume is null or a
\* number between 0 and 100.
C20_AtsScoreInRange ==
  \A r \in DOMAIN resumes :
    IsNull(resumes[r].atsScore) \/ Val(resumes[r].atsScore) \in 0..100

(***************************************************************************)
(* Failure handling and order of the stage's steps.                        *)
(***************************************************************************)
PendingOf(kind) ==
  IF kind = "detailed_ats" THEN "detailed_ats_pending" ELSE "job_opt_pending"

FailedOf(kind) ==
  IF kind = "detailed_ats" THEN "detailed_ats_failed" ELSE "job_opt_failed"

StatusOf(r) == resumes[r].status

\* The scores of every resume stay as they are.
ScoresUnchanged ==
  \A r \in DOMAIN resumes :
    /\ resumes'[r].atsScore = resumes[r].atsScore
    /\ resumes'[r].optimizationScore = resumes[r].optimizationScore
    /\ resumes'[r].keywordAnalysis = resumes[r].keywordAnalysis

\* The step ends request p, past its entitlement gate, without success.
FailsAfterGate(p) ==
  /\ StepOf(p)
  /\ pc[p] \notin {"idle", "done", "da_findUser", "da_findResume",
                   "jo_findUser", "jo_findResume"}
  /\ req[p].kind \in {"detailed_ats", "job_opt"}
  /\ pc'[p] = "done"
  /\ Val(resp'[p]).code # 200

\* C21 as stated: a request that fails after the gate is answered 500 and
\* leaves the resume in the stage's _failed status with its scores unchanged.
C21_FailureMarksFailed_AsStated ==
  [][ \A p \in Procs :
        FailsAfterGate(p) =>
          /\ Val(resp'[p]).code = 500
          /\ resumes'[req[p].resumeId].status = FailedOf(req[p].kind)
          /\ ScoresUnchanged ]_vars

\* C21 amended: a request that fails after the gate is answered 500 and its
\* catch path leaves the scores unchanged; the step that answers either sets
\* the status to the stage's _failed and nothing else, or, when that write
\* fails or the failure was the credit write itself, changes no row.
C21_FailureMarksFailed ==
  [][ \A p \in Procs :
        /\ FailsAfterGate(p) =>
             /\ Val(resp'[p]).code = 500
             /\ users' = users
             /\ \/ resumes' = resumes
                \/ /\ pc[p] \in {"da_markFailed", "jo_markFailed"}
                   /\ resumes' = SetStatus(resumes, req[p].resumeId,
                                           FailedOf(req[p].kind))
        /\ ( /\ StepOf(p)
             /\ pc[p] \in {"da_missingFile", "da_rollback", "da_markFailed",
                           "jo_missingFile", "jo_rollback", "jo_markFailed"} )
           => ScoresUnchanged ]_vars

C21_Witness ==
  \E p \in Procs :
    /\ Answered(p, 500)
    /\ req[p].kind = "detailed_ats"
    /\ usedPpuCredit[p]
    /\ StatusOf(req[p].resumeId) = "detailed_ats_failed"
    /\ resumes[req[p].resumeId].atsScore = Some(70)

\* C24: a request of a non-premium user enters the step that sets _pending
\* only from the step that consumed its credit; extraction (or the
\* missing-file exit) is entered only from the step that wrote the _pending
\* status, the analysis only from the extraction, and a non-premium request
\* at or past the _pending step holds a consumed credit.
C24_ConsumeThenPendingThenAnalysis ==
  [][ \A p \in Procs :
        /\ ( /\ StepOf(p)
             /\ pc'[p] \in {"da_setPending", "jo_setPending"}
             /\ ~ForPremium(p) )
           => /\ pc[p] \in {"da_consume", "jo_consume"}
              /\ usedPpuCredit'[p]
              /\ CounterOf(req[p].kind, users'[req[p].userId])
                   = CounterOf(req[p].kind, users[req[p].userId]) - 1
        /\ ( /\ StepOf(p)
             /\ pc'[p] \in {"da_extract", "da_missingFile",
                            "jo_extract", "jo_missingFile"} )
           => /\ pc[p] \in {"da_setPending", "jo_setPending"}
              /\ resumes'[req[p].resumeId].status = PendingOf(req[p].kind)
        /\ ( /\ StepOf(p)
             /\ pc'[p] \in {"da_analyze", "jo_analyze"} )
           => /\ pc[p] \in {"da_extract", "jo_extract"}
              /\ ForPremium(p) \/ usedPpuCredit[p] ]_vars

C24_Witness ==
  \E p \in Procs :
    /\ pc[p] = "jo_analyze"
    /\ usedPpuCredit[p]
    /\ alone[p]
    /\ StatusOf(req[p].resumeId) = "job_opt_pending"
    /\ users[req[p].userId].ppuOptimizationCredits = credBefore[p].opt - 1

\* The step sends the response of request p from the end of the stage or
\* from its catch block.
Responds(p) ==
  /\ pc[p] \in {"da_persist", "da_markFailed", "jo_persist", "jo_markFailed"}
  /\ pc'[p] = "done"

\* C25 as stated: when a request responds while the resume is in the
\* stage's _pending status, the status after the response is the stage's
\* _complete or _failed.
C25_PendingEnds_AsStated ==
  [][ \A p \in Procs :
        (Responds(p) /\ StatusOf(req[p].resumeId) = PendingOf(req[p].kind))
          => resumes'[req[p].resumeId].status
               \in {CompleteOf(req[p].kind), FailedOf(req[p].kind)} ]_vars

\* C25 amended: the responding step either leaves the status at the stage's
\* _complete (on success) or _failed, or, when the write of _failed fails,
\* writes nothing.
C25_PendingEnds ==
  [][ \A p \in Procs :
        Responds(p) =>
          \/ /\ Val(resp'[p]).code = 200
             /\ resumes'[req[p].resumeId].status = CompleteOf(req[p].kind)
          \/ /\ Val(resp'[p]).code = 500
             /\ \/ resumes'[req[p].resumeId].status = FailedOf(req[p].kind)
                \/ resumes' = resumes ]_vars

C25_Witness ==
  \E p \in Procs :
    /\ Answered(p, 500)
    /\ req[p].kind = "job_opt"
    /\ rollback[p] = "done"
    /\ StatusOf(req[p].resumeId) = "job_opt_failed"
    /\ ClicksOf(req[p].resumeId) = Some(PPU_CLICK_LIMIT)

(***************************************************************************)
(* Preconditions and ownership.                                            *)
(***************************************************************************)
\* The entitlement of request p at its gate: the credit counter for
\* job-optimization, the click budget for analyze-changes.
EntitledAt(p) ==
  \/ Val(user[p]).subscriptionStatus = "premium"
  \/ /\ req[p].kind = "job_opt"
     /\ Val(user[p]).ppuOptimizationCredits > 0
  \/ /\ req[p].kind = "analyze_changes"
     /\ Budget(req[p].resumeId) > 0

NotOwner(p) ==
  /\ req'[p].kind \in {"detailed_ats", "job_opt", "analyze_changes",
                       "job_description"}
  /\ req'[p].resumeId \in DOMAIN resumes
  /\ resumes[req'[p].resumeId].userId # req'[p].userId

\* The steps of request p that follow its lookups: consumption, status
\* writes, text extraction, the external analysis and the final write.
PastChecks(p) ==
  pc'[p] \notin {"idle", "done", "da_findUser", "da_findResume",
                 "jo_findUser", "jo_findResume", "ac_findUser",
                 "ac_findResume", "jd_findResume"}

StageStatuses ==
  {"uploaded", "basic_ats_pending", "basic_ats_complete", "basic_ats_failed",
   "detailed_ats_pending", "detailed_ats_complete", "detailed_ats_failed",
   "job_opt_pending", "job_opt_complete", "job_opt_failed",
   "pending_review", "review_complete"}

\* C26: in every reachable state the status of every resume is one of the
\* stage states, pending_review or review_complete.
C26_StatusInStageSet ==
  \A r \in DOMAIN resumes : StatusOf(r) \in StageStatuses

\* C27: the status of a resume becomes review_complete only from
\* pending_review.
C27_ReviewCompleteFromPending ==
  [][ \A r \in DOMAIN resumes :
        (resumes'[r].status = "review_complete" /\
         StatusOf(r) # "review_complete") =>
          StatusOf(r) = "pending_review" ]_vars

\* The position of a status on the track of a review order.
Rank(status) ==
  CASE status = "requested" -> 1
    [] status = "assigned" -> 2
    [] status = "in_progress" -> 3
    [] status = "completed" -> 4
    [] OTHER -> 0

\* C28: the status of a review order only moves forward on the track
\* requested, assigned, in_progress, completed, or to cancelled, and never
\* changes once it is completed or cancelled.
C28_OrderStatusTrack ==
  [][ \A i \in DOMAIN reviewOrders :
        reviewOrders'[i].status # reviewOrders[i].status =>
          /\ reviewOrders[i].status \notin {"completed", "cancelled"}
          /\ \/ reviewOrders'[i].status = "cancelled"
             \/ Rank(reviewOrders'[i].status) > Rank(reviewOrders[i].status)
    ]_vars

\* C29: in every reachable state a resume whose status is a terminal
\* success state has a completedAt.
C29_CompleteHasCompletedAt ==
  \A r \in DOMAIN resumes :
    StatusOf(r) \in {"basic_ats_complete", "detailed_ats_complete",
                     "job_opt_complete", "review_complete"} =>
      ~IsNull(resumes[r].completedAt)

\* C30: a resume created by an upload enters basic_ats_complete or
\* basic_ats_failed only from basic_ats_pending, and when the upload is
\* answered with the created resume its status is one of the two.
C30_BasicCheckTrack ==
  [][ /\ \A r \in DOMAIN resumes :
           (resumes'[r].status \in {"basic_ats_complete", "basic_ats_failed"}
              /\ resumes'[r].status # StatusOf(r)) =>
             StatusOf(r) = "basic_ats_pending"
      /\ \A p \in Procs :
           (StepOf(p) /\ pc'[p] = "done"
              /\ req'[p].kind \in {"upload", "free_check"}
              /\ Val(resp'[p]).code \in {200, 201}) =>
             resumes'[req'[p].resumeId].status \in
               {"basic_ats_complete", "basic_ats_failed"} ]_vars

(***************************************************************************)
(* Subscriptions.                                                          *)
(***************************************************************************)
\* The counters of every user are what they were.
CountersUnchanged ==
  \A u \in DOMAIN users :
    /\ users'[u].ppuAtsCredits = users[u].ppuAtsCredits
    /\ users'[u].ppuOptimizationCredits = users[u].ppuOptimizationCredits

\* C31: a subscription purchase handled with success leaves the user premium,
\* so that the paid analyses admit the user and consume no credit; the
\* deletion of the stored subscription, handled with success, leaves the
\* user inactive, so that the paid analyses consume a credit and reject the
\* user without one.  Neither changes a counter, and the deletion of an
\* unknown subscription changes no row.
C31_SubscriptionLifecycle ==
  [][ /\ ( Dispatch("subscription") /\ IsNull(wh') /\ whResp'.code = 200 ) =>
           LET u == users'[Val(wh).event.userId] IN
           /\ u.subscriptionStatus = "premium"
           /\ ~ConsumesCredit(u)
           /\ ~AtsGateRejects(u)
           /\ ~OptGateRejects(u)
           /\ CountersUnchanged
      /\ ( ~IsNull(deleting) /\ IsNull(deleting') /\ whResp'.code = 200 ) =>
           LET u == users'[Val(deleting)] IN
           /\ u.subscriptionStatus = "inactive"
           /\ ConsumesCredit(u)
           /\ AtsGateRejects(u) <=> u.ppuAtsCredits <= 0
           /\ OptGateRejects(u) <=> u.ppuOptimizationCredits <= 0
           /\ CountersUnchanged
      /\ ( /\ InFlight("customer.subscription.deleted")
           /\ FindBySubscription(Val(wh).event.subscription) = {}
           /\ IsNull(wh') ) =>
           UNCHANGED << users, resumes, reviewOrders >> ]_vars

\* The user subscribed and the deletion of that subscription was handled.
C31_Witness ==
  /\ whResp = WhResponse(200, "received")
  /\ IsNull(wh)
  /\ IsNull(deleting)
  /\ \E u \in DOMAIN users :
       /\ users[u].subscriptionStatus = "inactive"
       /\ users[u].stripeSubscriptionId = Some("sub_A")

(***************************************************************************)
(* The job description.                                                    *)
(***************************************************************************)
\* The resume request p addresses exists, is the caller's and has no
\* job description.
LacksJobDescription(p) ==
  /\ req'[p].resumeId \in DOMAIN resumes
  /\ resumes[req'[p].resumeId].userId = req'[p].userId
  /\ IsNull(resumes[req'[p].resumeId].jobDescription)

C33_OneOrderPerResume ==
  [][ /\ \A r \in DOMAIN resumes' :
           Cardinality(OrdersOf(reviewOrders', r)) <= 1
      /\ ( /\ HandlesReview
           /\ OrdersOf(reviewOrders, Val(wh).event.resumeId) # {} ) =>
           /\ reviewOrders' = reviewOrders
           /\ resumes' = resumes
           /\ whResp'.code = 500 ]_vars

\* The purchase was delivered twice: the first delivery created the order,
\* the second was answered 500.
C33_Witness ==
  /\ whResp = WhResponse(500, "Failed to process review order transaction")
  /\ IsNull(wh)
  /\ reviewOrders = << NewReviewOrder(1, 1) >>
  /\ resumes[1].status = "pending_review"

(***************************************************************************)
(* The credit ledger under grants.                                         *)
(***************************************************************************)
\* C34: the writes of an analysis request and of the webhook to a counter
\* apply to the stored value: a consume lowers it by one and a rollback
\* raises it by one, whatever copy the request holds and whatever grants
\* were written meanwhile, and a grant raises it by the grant amount while
\* a request is in flight.
C34_NoLostUpdate ==
  [][ /\ \A p \in Procs :
           LET before == Counters(req[p].userId)
               after == [ ats |-> users'[req[p].userId].ppuAtsCredits,
                          opt |-> users'[req[p].userId].ppuOptimizationCredits ]
           IN
           /\ ( pc[p] = "da_consume" /\ usedPpuCredit'[p] ) =>
                after = [ before EXCEPT !.ats = @ - 1 ]
           /\ ( pc[p] = "jo_consume" /\ usedPpuCredit'[p] ) =>
                after = [ before EXCEPT !.opt = @ - 1 ]
           /\ ( pc[p] = "da_rollback" /\ rollback'[p] = "done" ) =>
                after = [ before EXCEPT !.ats = @ + 1 ]
           /\ ( pc[p] = "jo_rollback" /\ rollback'[p] = "done" ) =>
                after = [ before EXCEPT !.opt = @ + 1 ]
      /\ ( Dispatch("ppu_ats") /\ whResp'.code = 200 /\ IsNull(wh') ) =>
           users' = IncrementCounter(users, Val(wh).event.userId,
                                     "ppuAtsCredits", GrantAmount)
      /\ ( Dispatch("ppu_optimization") /\ whResp'.code = 200
           /\ IsNull(wh') ) =>
           users' = IncrementCounter(users, Val(wh).event.userId,
                                     "ppuOptimizationCredits", GrantAmount) ]_vars

\* A request read one ATS credit, a grant was written, and the request then
\* consumed: the stored counter is one, not zero.
C34_Witness ==
  \E p \in Procs :
    /\ pc[p] = "da_setPending"
    /\ usedPpuCredit[p]
    /\ Val(user[p]).ppuAtsCredits = GrantAmount
    /\ \E e \in Purchases : e.serviceType = "ppu_ats" /\ granted[e] = GrantAmount
    /\ users[req[p].userId].ppuAtsCredits = GrantAmount

\* The credits of a kind the webhook granted.
GrantedOf(serviceType) ==
  LET es == { e \in GrantEvents : e.serviceType = serviceType }
      Sum[S \in SUBSET es] ==
        IF S = {} THEN 0
        ELSE LET e == CHOOSE x \in S : TRUE IN granted[e] + Sum[S \ {e}]
  IN Sum[es]

\* No request and no delivery is being handled.
Quiescent ==
  /\ \A p \in Procs : pc[p] \in {"idle", "done"}
  /\ IsNull(wh)
  /\ IsNull(deleting)

\* C35: when nothing is in flight and no rollback write of a user failed,
\* each counter of the user equals its value at the start plus the credits
\* granted minus the credits used by requests that succeeded.
C35_CreditConservation ==
  \A u \in DOMAIN users :
    ( Quiescent /\ ledger[u].lost = [ ats |-> 0, opt |-> 0 ] ) =>
      /\ users[u].ppuAtsCredits =
           ledger[u].start.ats + GrantedOf("ppu_ats") - ledger[u].used.ats
      /\ users[u].ppuOptimizationCredits =
           ledger[u].start.opt + GrantedOf("ppu_optimization")
             - ledger[u].used.opt

\* A credit was granted, one request succeeded on a credit and another
\* failed and was rolled back.
C35_Witness ==
  /\ Quiescent
  /\ nReq = 2
  /\ ledger[1].used = [ ats |-> 1, opt |-> 0 ]
  /\ ledger[1].lost = [ ats |-> 0, opt |-> 0 ]
  /\ GrantedOf("ppu_optimization") = GrantAmount
  /\ \E p \in Procs : Answered(p, 500) /\ rollback[p] = "done"
                      /\ req[p].kind = "job_opt"
  /\ users[1].ppuOptimizationCredits = 2 * GrantAmount

(***************************************************************************)
(* The click budget and the credits behind it.                             *)
(***************************************************************************)
\* The optimization credits of user u consumed and not given back.
NetConsumed(u) == ledger[u].start.opt - users[u].ppuOptimizationCredits

\* C36: the analyze-changes calls admitted for a non-premium user never
\* exceed PPU_CLICK_LIMIT times the optimization credits consumed and not
\* rolled back by the user's job-optimization calls; a job-optimization
\* that failed and was rolled back leaves no usable click.
C36_ClicksBackedByCredits ==
  \A u \in DOMAIN users :
    users[u].subscriptionStatus # "premium" =>
      ledger[u].calls.admitted <= PPU_CLICK_LIMIT * NetConsumed(u)

\* C37: the step of job-optimization that consumes the credit either lowers
\* ppuOptimizationCredits by one and sets the click budget of the resume to
\* PPU_CLICK_LIMIT, or fails and changes no user and no resume, answers 500
\* and ends the request with no rollback issued.
C37_ConsumeAllOrNothing ==
  [][ \A p \in Procs :
        pc[p] = "jo_consume" /\ pc'[p] # "jo_consume" =>
          \/ /\ usedPpuCredit'[p]
             /\ pc'[p] = "jo_setPending"
             /\ users' = IncrementCounter(users, req[p].userId,
                                          "ppuOptimizationCredits", -1)
             /\ resumes' =
                  [ resumes EXCEPT
                      ![req[p].resumeId].ppuOptimizationClicksRemaining =
                         Some(PPU_CLICK_LIMIT) ]
          \/ /\ ~usedPpuCredit'[p]
             /\ pc'[p] = "done"
             /\ Val(resp'[p]).code = 500
             /\ users' = users
             /\ resumes' = resumes
             /\ rollback'[p] = rollback[p] ]_vars

\* The transaction of a job-optimization failed: the request is answered
\* 500, the credit is still there and the resume has no click budget.
C37_Witness ==
  \E p \in Procs :
    /\ Answered(p, 500)
    /\ req[p].kind = "job_opt"
    /\ Val(resp[p]).error = "credit_write_failed"
    /\ rollback[p] = "none"
    /\ nReq = 1
    /\ users[req[p].userId].ppuOptimizationCredits = 1
    /\ resumes[req[p].resumeId].ppuOptimizationClicksRemaining = Null
    /\ resumes[req[p].resumeId].status = "basic_ats_complete"

\* C38: an analyze-changes call of a non-premium user reaches the analysis
\* only through the write that lowers the click budget of its resume by
\* exactly one, and no other step of the call, the failure of the analysis
\* included, changes any resume: the click is not given back.
C38_ClickChargedNotRestored ==
  [][ \A p \in Procs :
        /\ ( pc[p] = "ac_consume" /\ pc'[p] = "ac_analyze" ) =>
             /\ ~IsNull(ClicksOf(req[p].resumeId))
             /\ resumes' =
                  [ resumes EXCEPT
                      ![req[p].resumeId].ppuOptimizationClicksRemaining =
                         Some(Val(@) - 1) ]
        /\ ( pc[p] # "ac_analyze" /\ pc'[p] = "ac_analyze"
             /\ Val(user'[p]).subscriptionStatus # "premium" ) =>
             pc[p] = "ac_consume"
        /\ ( pc[p] = "ac_analyze" /\ StepOf(p) ) => resumes' = resumes ]_vars

\* The only call served was admitted on a budget of five and its analysis
\* failed: it is answered 500 and the budget is four.
C38_Witness ==
  \E p \in Procs :
    /\ Answered(p, 500)
    /\ req[p].kind = "analyze_changes"
    /\ Val(resp[p]).error = "failed"
    /\ nReq = 1
    /\ ledger[req[p].userId].calls.admitted = 1
    /\ ClicksOf(req[p].resumeId) = Some(PPU_CLICK_LIMIT - 1)

(***************************************************************************)
(* A rollback that fails.                                                  *)
(***************************************************************************)
\* The value the counter of request p had when the request read the user.
BeforeOf(p) ==
  IF req[p].kind = "detailed_ats" THEN credBefore[p].ats ELSE credBefore[p].opt

\* The step is the rollback write of request p, and the write fails.
RollbackFails(p) ==
  /\ pc[p] \in {"da_rollback", "jo_rollback"}
  /\ rollback'[p] = "failed"

\* The step is the one after a failed rollback of request p.
AfterFailedRollback(p) ==
  /\ pc[p] \in {"da_markFailed", "jo_markFailed"}
  /\ rollback[p] = "failed"
  /\ StepOf(p)

\* The failed rollback changes no user and hands over to the write of the
\* status; the step after it answers 500, ends the request and changes no
\* user, so that a counter no other request touched is one below its value
\* from before the request.
FailedRollbackFrame(p) ==
  /\ RollbackFails(p) =>
       /\ users' = users
       /\ pc'[p] \in {"da_markFailed", "jo_markFailed"}
  /\ AfterFailedRollback(p) =>
       /\ pc'[p] = "done"
       /\ Val(resp'[p]).code = 500
       /\ users' = users
       /\ alone'[p] =>
            CounterOf(req[p].kind, users'[req[p].userId]) = BeforeOf(p) - 1

\* C39 as stated: after a rollback that failed the handler sets the status
\* of the resume to the stage's _failed and answers 500; the counter stays
\* one below its value from before the request.
C39_FailedRollback_AsStated ==
  [][ \A p \in Procs :
        /\ FailedRollbackFrame(p)
        /\ AfterFailedRollback(p) =>
             resumes' = SetStatus(resumes, req[p].resumeId,
                                  FailedOf(req[p].kind)) ]_vars

\* C39 amended: the same, except that the write of the _failed status may
\* fail as well, which is only logged: the step then changes no resume.
C39_FailedRollback ==
  [][ \A p \in Procs :
        /\ FailedRollbackFrame(p)
        /\ AfterFailedRollback(p) =>
             \/ resumes' = SetStatus(resumes, req[p].resumeId,
                                     FailedOf(req[p].kind))
             \/ resumes' = resumes ]_vars

\* A request alone lost its credit to a failed rollback: it is answered 500,
\* the resume is marked failed and the counter is one below.
C39_Witness ==
  \E p \in Procs :
    /\ Answered(p, 500)
    /\ rollback[p] = "failed"
    /\ alone[p]
    /\ nReq = 1
    /\ StatusOf(req[p].resumeId) = FailedOf(req[p].kind)
    /\ CounterOf(req[p].kind, users[req[p].userId]) = BeforeOf(p) - 1
    /\ ledger[req[p].userId].lost # [ ats |-> 0, opt |-> 0 ]

(***************************************************************************)
(* Two analyses of one resume at the same time.                            *)
(***************************************************************************)
\* The only two requests served are a detailed-ats-report in slot p and a
\* job-optimization in slot q on the same resume, both answered 200.
BothSucceeded(p, q) ==
  /\ nReq = 2
  /\ Answered(p, 200) /\ req[p].kind = "detailed_ats"
  /\ Answered(q, 200) /\ req[q].kind = "job_opt"
  /\ req[p].resumeId = req[q].resumeId

\* The resume holds results of both analyses and a _complete status.
HoldsBoth(r) ==
  /\ resumes[r].atsScore \in { Some(a.atsScore) : a \in AtsResults }
  /\ resumes[r].optimizationScore \in
       { Some(a.optimizationScore) : a \in OptResults }
  /\ resumes[r].keywordAnalysis \in
       { Some(a.keywordAnalysis) : a \in OptResults }
  /\ StatusOf(r) \in {"detailed_ats_complete", "job_opt_complete"}

\* C40: the write that ends a successful detailed-ats-report stores its
\* atsScore and leaves optimizationScore and keywordAnalysis alone, the one
\* that ends a successful job-optimization stores its optimizationScore and
\* keywordAnalysis and leaves atsScore alone, each sets its _complete
\* status, and once a detailed-ats-report and a job-optimization on one
\* resume, served alone, have both succeeded, the resume holds an atsScore
\* of the first, the optimizationScore and keywordAnalysis of the second and
\* the status detailed_ats_complete or job_opt_complete.
C40_BothResultsKept ==
  [][ /\ \A p \in Procs :
           /\ ( pc[p] = "da_persist" /\ pc'[p] = "done" ) =>
                LET r == req[p].resumeId IN
                /\ resumes'[r].atsScore = Some(analysisResult[p].atsScore)
                /\ resumes'[r].status = "detailed_ats_complete"
                /\ resumes'[r].optimizationScore = resumes[r].optimizationScore
                /\ resumes'[r].keywordAnalysis = resumes[r].keywordAnalysis
           /\ ( pc[p] = "jo_persist" /\ pc'[p] = "done" ) =>
                LET r == req[p].resumeId IN
                /\ resumes'[r].optimizationScore =
                     Some(analysisResult[p].optimizationScore)
                /\ resumes'[r].keywordAnalysis =
                     Some(analysisResult[p].keywordAnalysis)
                /\ resumes'[r].status = "job_opt_complete"
                /\ resumes'[r].atsScore = resumes[r].atsScore
      /\ \A p, q \in Procs :
           BothSucceeded(p, q)' => HoldsBoth(req[p].resumeId)' ]_vars

\* Both requests of a free user were in flight together and succeeded; the
\* detailed-ats-report wrote last.
C40_Witness ==
  \E p, q \in Procs :
    /\ BothSucceeded(p, q)
    /\ ~alone[p] /\ ~alone[q]
    /\ usedPpuCredit[p] /\ usedPpuCredit[q]
    /\ StatusOf(req[p].resumeId) = "detailed_ats_complete"
    /\ resumes[req[p].resumeId].atsScore = Some(55)
    /\ resumes[req[p].resumeId].optimizationScore = Some(45)
    /\ resumes[req[p].resumeId].keywordAnalysis = Some("keywords")

====
